---- MODULE Spec2Model ----
(***************************************************************************)
(* A model of the two data pipelines of d3-multiseries-visualization-lab   *)
(* (the 12-period usage aggregation and the multi-asset series builder)    *)
(* and of the guards of the render entry points.                           *)
(*                                                                         *)
(* Abstractions: minutes and prices are integers (a quotient of two        *)
(* prices is an exact fraction), so floating-point rounding is not         *)
(* modelled; a JavaScript value is a tagged record (Num, NaNv, Null,       *)
(* Undef), and a date or app name is a short string.                       *)
(***************************************************************************)
EXTENDS Integers, Sequences, FiniteSets, TLC

VARIABLES
    finRows,    \* the finance rows handed to the pipeline (raw cells)
    finPc,      \* which finance operation has run
    finPre,     \* result of FinancePreprocess.preprocessFinanceRows
    finOut,     \* result of FinanceSeries2 buildSeries
    finLegacy,  \* result of normalizeFinanceRows + buildSeriesByAsset
    useRows,    \* the raw usage rows (one per day and app)
    usePc,      \* which usage operation has run
    usePre,     \* result of AppUsagePreprocess.preprocessFromRawRows
    useApp,     \* the app whose chart data was built
    useGrid,    \* result of buildShichenDateData for useApp
    useHourly,  \* result of buildHourlySeriesForApp for useApp
    useChart,   \* what the radial chart of useApp draws: arcs and annotation
    shPc,       \* whether getShichenIndex has been called
    shHour,     \* its argument
    shIdx,      \* its result
    page,       \* the document: children of each container, tooltips in body
    pageBefore, \* the document before the last render call
    rCall,      \* the last render call and whether its option was missing
    rThrown,    \* the message of the error that call threw, "" when none
    tipVisible, \* the tooltip classes whose element is displayed
    initPc,     \* which init runs on the page and how far it is
    appLoad,    \* the app usage data set: pending, loaded or failed
    finLoad,    \* the finance data set: pending, loaded or failed
    initApp,    \* the app usage rows that were loaded
    initFin,    \* the finance rows that were loaded
    initLog,    \* the diagnostics logged by init
    readyState, \* document.readyState
    listener,   \* whether init is registered for DOMContentLoaded
    initRuns,   \* how many times init has run
    reRenders,  \* how many times a chart has been rendered again
    animPc,       \* whether PageAnimation.init has run
    ioSupported,  \* "IntersectionObserver" in window
    animated,     \* the elements matching the .animate-* selector
    hasSection,   \* whether #series1-section exists
    playState,    \* style.animationPlayState of each element
    observed,     \* the targets the observers observe
    queued,       \* the intersection entries queued for delivery
    cardsPresent, \* whether the section holds .series1-app-container cards
    timers,       \* the pending timers of applyStaggerToCards
    retries,      \* how many timers applyStaggerToCards has scheduled
    staggered,    \* whether the cards have been given their transition
    everRunning,  \* the elements that have been set to running
    changes       \* how often the observer callback changed each play state

finVars == <<finRows, finPc, finPre, finOut, finLegacy>>
useVars == <<useRows, usePc, usePre, useApp, useGrid, useHourly, useChart>>
shVars == <<shPc, shHour, shIdx>>
domVars == <<page, pageBefore, rCall, rThrown, tipVisible>>
initVars == <<initPc, appLoad, finLoad, initApp, initFin, initLog, readyState,
              listener, initRuns, reRenders>>
animVars == <<animPc, ioSupported, animated, hasSection, playState, observed,
              queued, cardsPresent, timers, retries, staggered, everRunning,
              changes>>
vars == <<finVars, useVars, shVars, domVars, initVars, animVars>>

----------------------------------------------------------------------------
(* Bounds of the model *)

MaxFinRows == 2
MaxUseRows == 2
MaxHourArg == 60
MaxChildren == 2
MaxRetries == 3
MaxRenders == 2

----------------------------------------------------------------------------
(* JavaScript values and the coercions the code applies to them *)

Num(n) == [t |-> "num", v |-> n]
NaNv == [t |-> "nan", v |-> 0]
Null == [t |-> "null", v |-> 0]
Undef == [t |-> "undef", v |-> 0]
\* a string made of the digits of n and then other characters ("4abc")
Str(n) == [t |-> "str", v |-> n]

\* unary plus: +null is 0, +undefined, +NaN and +"4abc" are NaN
ToNumber(x) ==
    CASE x.t = "num" -> x
      [] x.t = "null" -> Num(0)
      [] OTHER -> NaNv

\* Number.isFinite does not coerce: only a non-NaN number passes
NumberIsFinite(x) == x.t = "num"

\* v == null / v != null (loose equality: null and undefined)
LooseNull(x) == x.t \in {"null", "undef"}

\* Array.prototype.sort with the comparator a.k - b.k on finite keys: stable,
\* ascending. keys[i] is the key of s[i].
SortRank(keys, i) ==
    1 + Cardinality({j \in DOMAIN keys :
                        keys[j] < keys[i] \/ (keys[j] = keys[i] /\ j < i)})

StableSortBy(s, keys) ==
    [r \in 1..Len(s) |-> s[CHOOSE i \in 1..Len(s) : SortRank(keys, i) = r]]

\* Array.from(set).sort((a, b) => a - b)
RECURSIVE SortedSeqOf(_)
SortedSeqOf(S) ==
    IF S = {} THEN <<>>
    ELSE LET m == CHOOSE x \in S : \A y \in S : x <= y
         IN <<m>> \o SortedSeqOf(S \ {m})

\* exact fractions n/d with d > 0, in lowest terms
RECURSIVE Gcd(_, _)
Gcd(a, b) == IF b = 0 THEN a ELSE Gcd(b, a % b)
Abs(a) == IF a < 0 THEN -a ELSE a
Frac(n, d) ==
    LET g == Gcd(Abs(n), d) IN [n |-> n \div g, d |-> d \div g]
FracLess(x, y) == x.n * y.d < y.n * x.d
FracLeq(x, y) == x.n * y.d <= y.n * x.d
FracMin(x, y) == IF FracLess(y, x) THEN y ELSE x
FracMax(x, y) == IF FracLess(x, y) THEN y ELSE x

----------------------------------------------------------------------------
(* FinancePreprocess (src/src/series1.js, second module) *)

ASSET_KEYS == <<"SPX", "NASDAQ", "BTC">>
AssetKeySet == {ASSET_KEYS[i] : i \in DOMAIN ASSET_KEYS}

toNumberOrNull(v) ==
    LET n == ToNumber(v) IN IF NumberIsFinite(n) THEN n ELSE Null

parseFinanceRow(d) ==
    LET year == ToNumber(d.Year)
    IN [year |-> IF NumberIsFinite(year) THEN year ELSE NaNv,
        SPX |-> toNumberOrNull(d.SPX),
        NASDAQ |-> toNumberOrNull(d.NASDAQ),
        BTC |-> toNumberOrNull(d.BTC)]

preprocessFinanceRows(rawRows) ==
    LET mapped == [i \in DOMAIN rawRows |-> parseFinanceRow(rawRows[i])]
        kept == SelectSeq(mapped, LAMBDA r : NumberIsFinite(r.year))
        parsed == StableSortBy(kept, [i \in DOMAIN kept |-> kept[i].year.v])
        years == {parsed[i].year.v : i \in DOMAIN parsed}
    IN [rows |-> parsed,
        byAsset |-> [k \in AssetKeySet |->
                        SelectSeq(parsed, LAMBDA r : NumberIsFinite(r[k]))],
        meta |-> "ASSET_META",
        yearRange |->
            IF years = {} THEN <<Null, Null>>
            ELSE <<Num(CHOOSE y \in years : \A z \in years : y <= z),
                   Num(CHOOSE y \in years : \A z \in years : z <= y)>>]

----------------------------------------------------------------------------
(* FinanceSeries2.buildSeries (src/src/series/series2.js) *)

\* the rows of one asset that pass the filter, as {year, rawValue} points
AssetPoints(rows, key) ==
    LET kept == SelectSeq(rows, LAMBDA r :
                    /\ NumberIsFinite(ToNumber(r.year))
                    /\ NumberIsFinite(ToNumber(r[key])))
    IN [i \in DOMAIN kept |->
           [year |-> ToNumber(kept[i].year).v,
            rawValue |-> ToNumber(kept[i][key]).v]]

\* a faulty variant: the points are left in input order
SortPointsSkipped(points) == points

SortPoints(points) ==
    StableSortBy(points, [i \in DOMAIN points |-> points[i].year])

\* a faulty variant: the base is taken from the last point
NormBaseFromLast(sorted) ==
    IF sorted[Len(sorted)].rawValue <= 0 THEN 0
    ELSE sorted[Len(sorted)].rawValue

\* base = points[0].rawValue, or null (0 here) when it is not > 0
NormBase(sorted) == IF sorted[1].rawValue <= 0 THEN 0 ELSE sorted[1].rawValue

NormalizePoints(sorted, normalize) ==
    LET base == NormBase(sorted)
    IN [i \in DOMAIN sorted |->
           [year |-> sorted[i].year,
            value |-> IF normalize /\ base > 0
                      THEN Frac(sorted[i].rawValue, base)
                      ELSE Frac(sorted[i].rawValue, 1),
            rawValue |-> sorted[i].rawValue]]

AssetLabel(key, meta) ==
    IF meta = "ASSET_META"
    THEN (CASE key = "SPX" -> "S&P 500"
            [] key = "NASDAQ" -> "Nasdaq Composite"
            [] OTHER -> "Bitcoin")
    ELSE key

RECURSIVE SeriesFrom(_, _, _, _)
SeriesFrom(k, rows, meta, normalize) ==
    IF k > Len(ASSET_KEYS) THEN <<>>
    ELSE LET key == ASSET_KEYS[k]
             points == AssetPoints(rows, key)
             rest == SeriesFrom(k + 1, rows, meta, normalize)
         IN IF Len(points) = 0 THEN rest
            ELSE <<[key |-> key,
                    label |-> AssetLabel(key, meta),
                    points |-> NormalizePoints(SortPoints(points), normalize)]>>
                 \o rest

AllPoints(seriesList) ==
    UNION {{seriesList[s].points[p] : p \in DOMAIN seriesList[s].points} :
              s \in DOMAIN seriesList}

\* yearSet, Array.from(yearSet), years.sort
SeriesYears(seriesList) ==
    SortedSeqOf({p.year : p \in AllPoints(seriesList)})

\* a faulty variant: only the lower bound of the normalized domain is widened
SeriesYDomainLowerOnly(seriesList, normalize) ==
    LET vals == {p.value : p \in AllPoints(seriesList)}
        lo == IF vals = {} THEN Frac(0, 1)
              ELSE CHOOSE x \in vals : \A y \in vals : FracLeq(x, y)
        hi == IF vals = {} THEN Frac(1, 1)
              ELSE CHOOSE x \in vals : \A y \in vals : FracLeq(y, x)
    IN IF normalize THEN <<FracMin(Frac(4, 5), lo), hi>> ELSE <<lo, hi>>

\* d3.min / d3.max over every point's value, the defaults 0 and 1 when there
\* is none, and the widening of the normalized domain to [0.8, 1.2]
SeriesYDomain(seriesList, normalize) ==
    LET vals == {p.value : p \in AllPoints(seriesList)}
        lo == IF vals = {} THEN Frac(0, 1)
              ELSE CHOOSE x \in vals : \A y \in vals : FracLeq(x, y)
        hi == IF vals = {} THEN Frac(1, 1)
              ELSE CHOOSE x \in vals : \A y \in vals : FracLeq(y, x)
    IN IF normalize
       THEN <<FracMin(Frac(4, 5), lo), FracMax(Frac(6, 5), hi)>>
       ELSE <<lo, hi>>

\* financeInput is {rows, meta} (a preprocess result, or renderFromRows'
\* fakeResult with meta null)
buildSeries(financeInput, normalize) ==
    LET seriesList ==
            SeriesFrom(1, financeInput.rows, financeInput.meta, normalize)
    IN [seriesList |-> seriesList,
        years |-> SeriesYears(seriesList),
        yDomain |-> SeriesYDomain(seriesList, normalize)]

----------------------------------------------------------------------------
(* FinanceSeries2 of src/src/series2.js: normalizeFinanceRows and          *)
(* buildSeriesByAsset                                                      *)

\* num(v): a NaN number, null, undefined or an unparseable value give null
LegacyNum(v) == IF v.t = "num" THEN v ELSE Null

normalizeFinanceRows(rows) ==
    LET mapped == [i \in DOMAIN rows |->
                      [year |-> rows[i].Year,
                       SPX |-> LegacyNum(rows[i].SPX),
                       NASDAQ |-> LegacyNum(rows[i].NASDAQ),
                       BTC |-> LegacyNum(rows[i].BTC)]]
    IN SelectSeq(mapped, LAMBDA r : r.year.t \in {"num", "nan"})

Perms(n) ==
    {p \in [1..n -> 1..n] : \A i, j \in 1..n : i # j => p[i] # p[j]}

\* series[k].sort(function (a, b) { return a.year - b.year; }): the orders
\* the sort can leave the points in. A difference with a NaN year is NaN,
\* which the sort takes as 0. Without a NaN year the sort is the stable sort
\* by year; with a NaN year and at most one finite year every comparison
\* gives 0 and the stable sort keeps the input order; with a NaN year and two
\* different finite years the comparator is not consistent and the order is
\* implementation-defined.
LegacySortOutcomes(pts) ==
    LET finite == {pts[i].year.v :
                      i \in {j \in DOMAIN pts : pts[j].year.t = "num"}}
        hasNaN == \E i \in DOMAIN pts : pts[i].year.t = "nan"
    IN IF ~hasNaN
       THEN {StableSortBy(pts, [i \in DOMAIN pts |-> pts[i].year.v])}
       ELSE IF Cardinality(finite) <= 1 THEN {pts}
       ELSE {[i \in DOMAIN pts |-> pts[p[i]]] : p \in Perms(Len(pts))}

\* the points pushed for one asset, before the sort
LegacyAssetSeries(rows, key) ==
    LET kept == SelectSeq(rows, LAMBDA r : ~LooseNull(r[key]))
    IN [i \in DOMAIN kept |->
           [year |-> kept[i].year, value |-> kept[i][key].v]]

\* the results buildSeriesByAsset can return (one, unless the order of a
\* sort is implementation-defined); d3.min and d3.max skip NaN
buildSeriesByAsset(rows) ==
    LET years == {rows[i].year.v :
                     i \in {j \in DOMAIN rows : rows[j].year.t = "num"}}
        sorted == [k \in AssetKeySet |->
                      LegacySortOutcomes(LegacyAssetSeries(rows, k))]
    IN {[series |-> [k \in AssetKeySet |-> tuple[k]],
         minYear |-> IF years = {} THEN Undef
                     ELSE Num(CHOOSE y \in years : \A z \in years : y <= z),
         maxYear |-> IF years = {} THEN Undef
                     ELSE Num(CHOOSE y \in years : \A z \in years : z <= y)] :
           tuple \in {f \in [AssetKeySet -> UNION {sorted[k] : k \in AssetKeySet}] :
                         \A k \in AssetKeySet : f[k] \in sorted[k]}}

----------------------------------------------------------------------------
(* The finance inputs and operations *)

\* Raw cells. A year is a number or missing; each price column has one of
\* the absent encodings (NaN, undefined, null); SPX takes 0 (a non-positive
\* first value) and BTC two positive prices (a non-trivial quotient).
FinYearInputs == {Num(1), Num(2), Undef}
FinPriceInputs ==
    [SPX |-> {NaNv, Num(0)},
     NASDAQ |-> {Undef, Num(3)},
     BTC |-> {Null, Num(1), Num(2)}]

FinRowInputs ==
    {[Year |-> y, SPX |-> a, NASDAQ |-> b, BTC |-> c] :
        y \in FinYearInputs, a \in FinPriceInputs.SPX,
        b \in FinPriceInputs.NASDAQ, c \in FinPriceInputs.BTC}

FinRowSeqs == UNION {[1..n -> FinRowInputs] : n \in 0..MaxFinRows}

\* the same cells under the field names buildSeries reads
PlainRows(rows) ==
    [i \in DOMAIN rows |->
        [year |-> rows[i].Year, SPX |-> rows[i].SPX,
         NASDAQ |-> rows[i].NASDAQ, BTC |-> rows[i].BTC]]

NoPre == [rows |-> <<>>, byAsset |-> [k \in AssetKeySet |-> <<>>],
          meta |-> "none", yearRange |-> <<Null, Null>>]
NoOut == [seriesList |-> <<>>, years |-> <<>>,
          yDomain |-> <<Frac(0, 1), Frac(0, 1)>>, normalize |-> FALSE]
NoLegacy == [series |-> [k \in AssetKeySet |-> <<>>],
             minYear |-> Undef, maxYear |-> Undef]

FinStart ==
    /\ finRows \in FinRowSeqs
    /\ finPc = "input"
    /\ finPre = NoPre
    /\ finOut = NoOut
    /\ finLegacy = NoLegacy

\* Rows whose year takes every encoding of a year cell: a number, missing
\* (undefined), null and NaN; the prices are present but for one column
YearInputs == {Num(1), Num(2), Undef, Null, NaNv}
YearRowInputs ==
    {[Year |-> y, SPX |-> Num(0), NASDAQ |-> b, BTC |-> Num(1)] :
        y \in YearInputs, b \in {Undef, Num(3)}}
YearRowSeqs == UNION {[1..n -> YearRowInputs] : n \in 0..MaxFinRows}

FinYearStart ==
    /\ finRows \in YearRowSeqs
    /\ finPc = "input"
    /\ finPre = NoPre
    /\ finOut = NoOut
    /\ finLegacy = NoLegacy

\* a faulty variant: the sort by year is applied to the argument itself
RawRowsSortedInPlace(rawRows) ==
    StableSortBy(rawRows, [i \in DOMAIN rawRows |-> rawRows[i].Year.v])

\* The argument of a pipeline after the call. Each pipeline reads its
\* argument through filter, map and forEach, which build new arrays and
\* objects, and sorts the arrays it built: the argument is as it was.
RowsAfterPreprocess(rawRows) == rawRows
RowsAfterBuildSeries(rows) == rows
RowsAfterBuildSeriesByAsset(rows) == rows

WithNormalize(out, normalize) ==
    [seriesList |-> out.seriesList, years |-> out.years,
     yDomain |-> out.yDomain, normalize |-> normalize]

\* renderFromRows: buildSeries on {rows, meta: null}
BuildSeriesFromRows(normalize) ==
    /\ finPc = "input"
    /\ finOut' = WithNormalize(
           buildSeries([rows |-> PlainRows(finRows), meta |-> "none"],
                       normalize), normalize)
    /\ finPc' = "builtRows"
    /\ finRows' = RowsAfterBuildSeries(finRows)
    /\ UNCHANGED <<finPre, finLegacy, useVars, shVars, domVars, initVars, animVars>>

\* FinancePreprocess.preprocessFinanceRows(rawRows)
PreprocessFinance ==
    /\ finPc = "input"
    /\ finPre' = preprocessFinanceRows(finRows)
    /\ finPc' = "preprocessed"
    /\ finRows' = RowsAfterPreprocess(finRows)
    /\ UNCHANGED <<finOut, finLegacy, useVars, shVars, domVars, initVars, animVars>>

\* renderFromPreprocessResult: buildSeries on the preprocess result
BuildSeriesFromPre(normalize) ==
    /\ finPc = "preprocessed"
    /\ finOut' = WithNormalize(buildSeries(finPre, normalize), normalize)
    /\ finPc' = "builtPre"
    /\ finPre' = [finPre EXCEPT !.rows = RowsAfterBuildSeries(@)]
    /\ UNCHANGED <<finRows, finLegacy, useVars, shVars, domVars, initVars, animVars>>

\* renderFromRawRows of src/src/series2.js, up to the call of renderFromSeries
BuildLegacySeries ==
    /\ finPc = "input"
    /\ finLegacy' \in buildSeriesByAsset(normalizeFinanceRows(finRows))
    /\ finPc' = "builtLegacy"
    /\ finRows' = RowsAfterBuildSeriesByAsset(finRows)
    /\ UNCHANGED <<finPre, finOut, useVars, shVars, domVars, initVars, animVars>>

FinNext ==
    \/ \E normalize \in BOOLEAN : BuildSeriesFromRows(normalize)
    \/ PreprocessFinance
    \/ \E normalize \in BOOLEAN : BuildSeriesFromPre(normalize)
    \/ BuildLegacySeries

----------------------------------------------------------------------------
(* AppUsagePreprocess (src/unnamed/part_003) *)

\* JavaScript's remainder takes the sign of the dividend
JsRem(a, m) == IF a >= 0 THEN a % m ELSE -((-a) % m)

\* a faulty variant: the hour is halved without the shift by one
getShichenIndexUnshifted(hour) ==
    LET h == JsRem(JsRem(hour, 24) + 24, 24)
    IN h \div 2

getShichenIndex(hour) ==
    LET h == JsRem(JsRem(hour, 24) + 24, 24)
    IN JsRem(h + 1, 24) \div 2

\* the pinyin of the SHICHEN table stands for the period's name
SHICHEN_NAMES ==
    <<"Zi", "Chou", "Yin", "Mao", "Chen", "Si",
      "Wu", "Wei", "Shen", "You", "Xu", "Hai">>

\* a faulty variant: the windows start at the even hours
SHICHEN_FromEvenHours ==
    [p \in 1..12 |->
        [index |-> p - 1, pinyin |-> SHICHEN_NAMES[p],
         from |-> 2 * (p - 1), to |-> JsRem(2 * (p - 1) + 2, 24)]]

\* the SHICHEN table: index, name and the window "from:00-to:00"
SHICHEN ==
    [p \in 1..12 |->
        [index |-> p - 1, pinyin |-> SHICHEN_NAMES[p],
         from |-> JsRem(2 * (p - 1) + 23, 24), to |-> 2 * (p - 1) + 1]]

toNumber(v) == LET n == ToNumber(v) IN IF NumberIsFinite(n) THEN n.v ELSE 0

\* A raw row holds a date, an app name and 24 hourly cells. The rows of the
\* model vary hours 0, 1 and 23; every other hourly cell holds 0. A date is
\* the rank of its string in lexicographic order, 0 being the empty string.
HourCell(d, hourIndex) ==
    CASE hourIndex = 0 -> d.h0
      [] hourIndex = 1 -> d.h1
      [] hourIndex = 23 -> d.h23
      [] OTHER -> Num(0)

\* d3.timeParse + d3.timeFormat('%a'): '' when the date does not parse
WeekdayOf(dateStr) ==
    CASE dateStr = 0 -> ""
      [] dateStr % 2 = 1 -> "Wed"
      [] OTHER -> "Thu"

parseWideRow(d) ==
    [dateStr |-> d.date,
     weekday |-> WeekdayOf(d.date),
     appName |-> d.app,
     hours |-> [i \in 0..23 |-> toNumber(HourCell(d, i))]]

RECURSIVE LongFrom(_, _)
LongFrom(wideRow, hourIndex) ==
    IF hourIndex > 23 THEN <<>>
    ELSE LET minutes == wideRow.hours[hourIndex]
             rest == LongFrom(wideRow, hourIndex + 1)
         IN IF minutes <= 0 THEN rest
            ELSE <<[dateStr |-> wideRow.dateStr,
                    weekday |-> wideRow.weekday,
                    appName |-> wideRow.appName,
                    hour |-> hourIndex,
                    minutes |-> minutes,
                    shichenIndex |-> getShichenIndex(hourIndex)]>> \o rest

\* a faulty variant: the loop over the hour columns starts at the second column
wideRowToLongRecordsFromSecond(wideRow) == LongFrom(wideRow, 1)

wideRowToLongRecords(wideRow) == LongFrom(wideRow, 0)

RECURSIVE ConcatAll(_)
ConcatAll(seqs) ==
    IF seqs = <<>> THEN <<>> ELSE Head(seqs) \o ConcatAll(Tail(seqs))

UseApps == {"A", "B"}

\* groupBy(array, d => d.appName): Map.get gives undefined (here <<>>) for a
\* key that no item has
groupBy(array) ==
    [a \in UseApps |-> SelectSeq(array, LAMBDA r : r.appName = a)]

preprocessFromRawRows(rawRows) ==
    LET wideRows == [i \in DOMAIN rawRows |-> parseWideRow(rawRows[i])]
        longRecords ==
            ConcatAll([i \in DOMAIN wideRows |->
                          wideRowToLongRecords(wideRows[i])])
    IN [longRecords |-> longRecords, byApp |-> groupBy(longRecords)]

----------------------------------------------------------------------------
(* AppUsageSeries1 of src/src/series/series1.js: buildShichenDateData and  *)
(* the peak of drawAutoAnnotation                                          *)

\* dateIndexByStr[dateStr]: the position of dateStr in dates, 0 when absent
DateIndex(dates, dateStr) ==
    IF \E i \in DOMAIN dates : dates[i] = dateStr
    THEN CHOOSE i \in DOMAIN dates : dates[i] = dateStr
    ELSE 0

\* whether the aggregation loop adds record d into the cell (s, dateStr)
AddsInto(d, s, dateStr) ==
    /\ d.minutes > 0
    /\ d.dateStr # 0
    /\ d.dateStr = dateStr
    /\ JsRem(JsRem(d.shichenIndex, 12) + 12, 12) = s

RECURSIVE SumMinutes(_)
SumMinutes(records) ==
    IF records = <<>> THEN 0
    ELSE Head(records).minutes + SumMinutes(Tail(records))

\* a faulty variant: a record overwrites the cell (item.minutes = m) instead of adding
CellMinutesOverwritten(records, s, dateStr) ==
    LET hits == SelectSeq(records, LAMBDA d : AddsInto(d, s, dateStr))
    IN IF hits = <<>> THEN 0 ELSE hits[Len(hits)].minutes

CellMinutes(records, s, dateStr) ==
    SumMinutes(SelectSeq(records, LAMBDA d : AddsInto(d, s, dateStr)))

\* a faulty variant: the records without a date string are not skipped
GridDatesWithEmpty(records) ==
    SortedSeqOf({records[i].dateStr : i \in DOMAIN records})

\* dates: the distinct non-empty date strings, sorted
GridDates(records) ==
    SortedSeqOf({records[i].dateStr : i \in DOMAIN records} \ {0})

\* a faulty variant: the minutes of the first cell
GridMaxOfFirstCell(matrix) ==
    IF matrix = <<>> THEN 0 ELSE matrix[1].minutes

\* d3.max(matrix, d => d.minutes) || 0
GridMax(matrix) ==
    LET all == {matrix[i].minutes : i \in DOMAIN matrix}
    IN IF all = {} THEN 0 ELSE CHOOSE m \in all : \A x \in all : x <= m

buildShichenDateData(records, appName) ==
    LET dates == GridDates(records)
        numDates == Len(dates)
        matrix ==
            [idx \in 1..(12 * numDates) |->
                LET s == (idx - 1) \div numDates
                    di == (idx - 1) % numDates
                IN [appName |-> appName,
                    shichenIndex |-> s,
                    shichenName |-> SHICHEN_NAMES[s + 1],
                    dateStr |-> dates[di + 1],
                    dateIndex |-> di,
                    weekday |-> WeekdayOf(dates[di + 1]),
                    minutes |-> CellMinutes(records, s, dates[di + 1])]]
    IN [flatData |-> matrix,
        dates |-> dates,
        maxMinutes |-> GridMax(matrix),
        numDates |-> numDates]

\* a faulty variant: a later cell with equal minutes replaces the earlier
RECURSIVE MaxItemFromLast(_, _, _)
MaxItemFromLast(data, i, maxItem) ==
    IF i > Len(data) THEN maxItem
    ELSE MaxItemFromLast(data, i + 1,
            IF maxItem = 0 \/ data[i].minutes >= data[maxItem].minutes
            THEN i ELSE maxItem)

\* drawAutoAnnotation's scan: the first cell with the largest minutes, and
\* nothing when there is no cell or the largest is 0. The result is the
\* index of the cell in data, 0 for no annotation.
RECURSIVE MaxItemFrom(_, _, _)
MaxItemFrom(data, i, maxItem) ==
    IF i > Len(data) THEN maxItem
    ELSE MaxItemFrom(data, i + 1,
            IF maxItem = 0 \/ data[i].minutes > data[maxItem].minutes
            THEN i ELSE maxItem)

PeakIndex(data) ==
    LET maxItem == MaxItemFrom(data, 1, 0)
    IN IF maxItem = 0 \/ data[maxItem].minutes = 0 THEN 0 ELSE maxItem

\* drawAutoAnnotation: the cells an annotation group is appended for
drawAutoAnnotation(data) ==
    IF PeakIndex(data) = 0 THEN <<>> ELSE <<data[PeakIndex(data)]>>

\* a faulty variant: every cell is bound to an arc
drawArcsUnfiltered(data) == data

\* drawArcs: the cells bound to the arc paths
drawArcs(data) == SelectSeq(data, LAMBDA d : d.minutes > 0)

\* what renderAppUsageRadialChart draws from the grid
RadialChartOf(dataInfo) ==
    [arcs |-> drawArcs(dataInfo.flatData),
     annotation |-> drawAutoAnnotation(dataInfo.flatData)]

----------------------------------------------------------------------------
(* AppUsageSeries1 of src/src/series1.js: groupByApp and                   *)
(* buildHourlySeriesForApp                                                 *)

groupByApp(records) ==
    [a \in UseApps |-> SelectSeq(records, LAMBDA row : row.app = a)]

\* typeof raw === 'number' ? raw : parseFloat(raw); NaN for a NaN number,
\* null and undefined; parseFloat reads the leading digits of a string
HourlyParse(raw) ==
    CASE raw.t = "num" -> raw
      [] raw.t = "str" -> Num(raw.v)
      [] OTHER -> NaNv

\* a faulty variant: only the first record is counted
HourTotalOfFirst(appRecords, i) ==
    IF appRecords = <<>> THEN 0
    ELSE LET v == HourlyParse(HourCell(Head(appRecords), i))
         IN IF v.t = "nan" THEN 0 ELSE v.v

RECURSIVE HourTotal(_, _)
HourTotal(appRecords, i) ==
    IF appRecords = <<>> THEN 0
    ELSE LET v == HourlyParse(HourCell(Head(appRecords), i))
         IN (IF v.t = "nan" THEN 0 ELSE v.v) + HourTotal(Tail(appRecords), i)

\* a faulty variant: hour i reads the column of hour i + 1
buildHourlySeriesOffByOne(appRecords) ==
    [k \in 1..24 |-> [hour |-> k - 1, value |-> HourTotal(appRecords, k)]]

buildHourlySeriesForApp(appRecords) ==
    [k \in 1..24 |-> [hour |-> k - 1, value |-> HourTotal(appRecords, k - 1)]]

----------------------------------------------------------------------------
(* The usage inputs and operations *)

UseDateInputs == {0, 1, 2}
UseCellInputs ==
    [h0 |-> {NaNv, Str(4), Num(1)}, h1 |-> {Num(0), Num(3)},
     h23 |-> {Num(-1), Num(2)}]

\* the rows of app A take every combination of cells, those of app B (the
\* rows a chart of A must leave out) one
UseRowInputs ==
    {[date |-> d, app |-> "A", h0 |-> x, h1 |-> y, h23 |-> z] :
        d \in UseDateInputs, x \in UseCellInputs.h0,
        y \in UseCellInputs.h1, z \in UseCellInputs.h23}
    \cup {[date |-> d, app |-> "B", h0 |-> Num(1), h1 |-> Num(0),
           h23 |-> Num(2)] : d \in UseDateInputs}

UseRowSeqs == UNION {[1..n -> UseRowInputs] : n \in 0..MaxUseRows}

NoUsePre == [longRecords |-> <<>>, byApp |-> [a \in UseApps |-> <<>>]]
NoGrid == [flatData |-> <<>>, dates |-> <<>>, maxMinutes |-> 0, numDates |-> 0]
NoChart == [arcs |-> <<>>, annotation |-> <<>>]

\* long records handed to renderAppUsageRadialChart directly: one record
\* without minutes, and two records of one day with the same minutes, the
\* one of the later period first
DirectRecordInputs ==
    {<<[dateStr |-> 1, weekday |-> "Wed", appName |-> "A", hour |-> 0,
        minutes |-> 0, shichenIndex |-> 0]>>,
     <<[dateStr |-> 1, weekday |-> "Wed", appName |-> "A", hour |-> 9,
        minutes |-> 2, shichenIndex |-> 5],
       [dateStr |-> 1, weekday |-> "Wed", appName |-> "A", hour |-> 5,
        minutes |-> 2, shichenIndex |-> 3]>>}

UseStart ==
    /\ useRows \in UseRowSeqs
    /\ usePc = "input"
    /\ usePre = NoUsePre
    /\ useApp = "none"
    /\ useGrid = NoGrid
    /\ useHourly = <<>>
    /\ useChart = NoChart

\* the records handed to buildShichenDateData after the call: the function
\* reads them with forEach and adds minutes to the cells of its own matrix
RecordsAfterAggregation(records) == records

PreprocessUsage ==
    /\ usePc = "input"
    /\ usePre' = preprocessFromRawRows(useRows)
    /\ usePc' = "preprocessed"
    /\ UNCHANGED <<useRows, useApp, useGrid, useHourly, useChart, finVars, shVars, domVars, initVars, animVars>>

\* renderForMultipleApps / renderAppUsageRadialChart for one app: an app
\* without records is skipped, the app name is that of the first record
BuildGrid(app) ==
    /\ usePc = "preprocessed"
    /\ Len(usePre.byApp[app]) > 0
    /\ useGrid' = buildShichenDateData(usePre.byApp[app],
                                       usePre.byApp[app][1].appName)
    /\ useChart' = RadialChartOf(useGrid')
    /\ useApp' = app
    /\ usePc' = "grid"
    /\ usePre' = [usePre EXCEPT !.byApp[app] = RecordsAfterAggregation(@)]
    /\ UNCHANGED <<useRows, useHourly, finVars, shVars, domVars, initVars, animVars>>

\* renderFromRawRecords of src/src/series1.js, up to the drawing
BuildHourly(app) ==
    /\ usePc = "input"
    /\ useHourly' = buildHourlySeriesForApp(groupByApp(useRows)[app])
    /\ useApp' = app
    /\ usePc' = "hourly"
    /\ UNCHANGED <<useRows, usePre, useGrid, useChart, finVars, shVars, domVars, initVars, animVars>>

\* buildShichenDateData applied to the records of one app, which may be none
Aggregate(app) ==
    /\ usePc = "preprocessed"
    /\ useGrid' = buildShichenDateData(usePre.byApp[app], app)
    /\ useApp' = app
    /\ usePc' = "aggregated"
    /\ usePre' = [usePre EXCEPT !.byApp[app] = RecordsAfterAggregation(@)]
    /\ UNCHANGED <<useRows, useHourly, useChart, finVars, shVars, domVars, initVars, animVars>>

\* renderAppUsageRadialChart called with long records of the caller's own
DrawRecords(records) ==
    /\ usePc = "input"
    /\ Len(records) > 0
    /\ useGrid' = buildShichenDateData(records, records[1].appName)
    /\ useChart' = RadialChartOf(useGrid')
    /\ useApp' = records[1].appName
    /\ usePc' = "drawn"
    /\ UNCHANGED <<useRows, usePre, useHourly, finVars, shVars, domVars, initVars, animVars>>

UseNext ==
    \/ PreprocessUsage
    \/ \E records \in DirectRecordInputs : DrawRecords(records)
    \/ \E app \in UseApps : Aggregate(app)
    \/ \E app \in UseApps : BuildGrid(app)
    \/ \E app \in UseApps : BuildHourly(app)

----------------------------------------------------------------------------
(* getShichenIndex called on its own *)

HourArgs == (-MaxHourArg)..MaxHourArg

ShStart == shPc = "idle" /\ shHour = 0 /\ shIdx = 0

CallGetShichenIndex(hour) ==
    /\ shHour' = hour
    /\ shIdx' = getShichenIndex(hour)
    /\ shPc' = "called"
    /\ UNCHANGED <<finVars, useVars, domVars, initVars, animVars>>

ShNext == \E hour \in HourArgs : CallGetShichenIndex(hour)

----------------------------------------------------------------------------
(* The render entry points: their guards and their effect on the page.     *)
(* A chart is one svg element (its class and title); what is drawn inside  *)
(* it is not modelled here.                                                *)

\* a CSS selector built as prefix + suffix; the empty string is NoSel
Sel(prefix, suffix) == [prefix |-> prefix, suffix |-> suffix]
NoSel == Sel("", "")

\* prefix + idx
IdxStr(idx) == CASE idx = 0 -> "0" [] idx = 1 -> "1" [] OTHER -> "n"

SERIES1_PREFIX == "#series1-app-"
SERIES2 == Sel("#series2", "")
Containers ==
    {Sel(SERIES1_PREFIX, "0"), Sel(SERIES1_PREFIX, "1"),
     Sel(SERIES1_PREFIX, "A"), Sel("#series2", "")}

Svg(cls, title) == [tag |-> "svg", cls |-> cls, title |-> title]
Placeholder == [tag |-> "p", cls |-> "", title |-> ""]

\* an argument that is an array, and an options object
Arr(seq) == [t |-> "arr", v |-> seq]
IsArray(x) == x.t = "arr"
Options(container, containerPrefix, title) ==
    [t |-> "obj", container |-> container,
     containerPrefix |-> containerPrefix, title |-> title]

\* options && options.container / options && options.containerPrefix
HasContainer(options) == options.t = "obj" /\ options.container # NoSel
HasContainerPrefix(options) ==
    options.t = "obj" /\ options.containerPrefix # ""

\* a faulty variant: the element is appended to what the container holds
AppendKeeping(dom, selector, el) ==
    IF selector \in DOMAIN dom
    THEN [dom EXCEPT ![selector] = Append(@, el)]
    ELSE dom

\* d3.select(selector).selectAll('*').remove() followed by append(el); a
\* selector that matches nothing gives an empty selection and no effect
ClearAndAppend(dom, selector, el) ==
    IF selector \in DOMAIN dom THEN [dom EXCEPT ![selector] = <<el>>]
    ELSE dom

\* d3.select(selector).append(el)
AppendTo(dom, selector, el) ==
    IF selector \in DOMAIN dom
    THEN [dom EXCEPT ![selector] = Append(@, el)]
    ELSE dom

\* a faulty variant: a tooltip element is appended on every call
createTooltipAlways(count) == count + 1

\* getOrCreateTooltip: the number of tooltip elements of one class in body
getOrCreateTooltip(count) == IF count > 0 THEN count ELSE count + 1

DEFAULT_CONFIG == [normalize |-> TRUE, showPoints |-> TRUE]

\* AppUsageSeries1.renderAppUsageRadialChart(records, options)
renderAppUsageRadialChart(pg, records, options) ==
    IF ~IsArray(records) \/ Len(records.v) = 0 THEN pg
    ELSE IF ~HasContainer(options) THEN pg
    ELSE LET appName == records.v[1].appName
             title == IF options.title # "" THEN options.title ELSE appName
         IN [dom |-> ClearAndAppend(pg.dom, options.container,
                                    Svg("series1-svg", title)),
             tips1 |-> getOrCreateTooltip(pg.tips1),
             tips2 |-> pg.tips2]

\* byApp.get(appName)
ByAppGet(byApp, appName) ==
    IF appName \in DOMAIN byApp THEN byApp[appName] ELSE <<>>

\* the forEach of renderForMultipleApps from position k on
RECURSIVE MultipleFrom(_, _, _, _, _)
MultipleFrom(pg, byApp, appNames, options, k) ==
    IF k > Len(appNames) THEN pg
    ELSE LET records == ByAppGet(byApp, appNames[k])
             one == IF Len(records) = 0 THEN pg
                    ELSE renderAppUsageRadialChart(pg, Arr(records),
                             Options(Sel(options.containerPrefix,
                                         IdxStr(k - 1)),
                                     options.containerPrefix, appNames[k]))
         IN MultipleFrom(one, byApp, appNames, options, k + 1)

\* a faulty variant: the apps without records are dropped before the
\* forEach, so the later apps move into earlier containers
renderForMultipleAppsCompacting(pg, preprocessResult, appNames, options) ==
    IF preprocessResult.t # "obj" THEN pg
    ELSE IF ~IsArray(appNames) \/ Len(appNames.v) = 0 THEN pg
    ELSE IF ~HasContainerPrefix(options) THEN pg
    ELSE MultipleFrom(pg, preprocessResult.byApp,
                      SelectSeq(appNames.v,
                                LAMBDA a :
                                    Len(ByAppGet(preprocessResult.byApp,
                                                 a)) > 0),
                      options, 1)

\* AppUsageSeries1.renderForMultipleApps(preprocessResult, appNames, options)
renderForMultipleApps(pg, preprocessResult, appNames, options) ==
    IF preprocessResult.t # "obj" THEN pg
    ELSE IF ~IsArray(appNames) \/ Len(appNames.v) = 0 THEN pg
    ELSE IF ~HasContainerPrefix(options) THEN pg
    ELSE MultipleFrom(pg, preprocessResult.byApp, appNames.v, options, 1)

\* FinanceSeries2 renderInternal(financeResult, options)
renderInternal(pg, financeResult, options) ==
    IF ~HasContainer(options) THEN pg
    ELSE IF Len(buildSeries(financeResult,
                            DEFAULT_CONFIG.normalize).seriesList) = 0
    THEN pg
    ELSE [dom |-> ClearAndAppend(pg.dom, options.container,
                                 Svg("series2-svg", "finance")),
          tips1 |-> pg.tips1,
          tips2 |-> getOrCreateTooltip(pg.tips2)]

\* FinanceSeries2.renderFromRows(rows, options)
renderFromRows(pg, rows, options) ==
    IF ~IsArray(rows) THEN pg
    ELSE renderInternal(pg, [rows |-> PlainRows(rows.v), meta |-> "none"],
                        options)

\* the error renderFromRawRecords of src/src/series1.js throws, "" when none
RawRecordsError(records, appNames, userOptions) ==
    IF ~IsArray(records) THEN "records must be an array"
    ELSE IF ~IsArray(appNames) \/ Len(appNames.v) = 0
    THEN "appNames must not be empty"
    ELSE IF ~HasContainerPrefix(userOptions)
    THEN "containerPrefix is required"
    ELSE ""

\* its forEach from position k on: renderAppChart appends an svg to the
\* container containerPrefix + name
RECURSIVE RawRecordsFrom(_, _, _, _)
RawRecordsFrom(pg, appNames, userOptions, k) ==
    IF k > Len(appNames) THEN pg
    ELSE RawRecordsFrom(
             [pg EXCEPT !.dom =
                 AppendTo(pg.dom,
                          Sel(userOptions.containerPrefix, appNames[k]),
                          Svg("", appNames[k]))],
             appNames, userOptions, k + 1)

renderFromRawRecords(pg, records, appNames, userOptions) ==
    IF RawRecordsError(records, appNames, userOptions) # "" THEN pg
    ELSE RawRecordsFrom(pg, appNames.v, userOptions, 1)

\* FinanceSeries2 (src/src/series2.js) renderFromRawRows: the error it
\* throws, "" when none
RawRowsError(rows) ==
    IF ~IsArray(rows) THEN "rows must be an array" ELSE ""

\* the assets renderFromSeries draws a line for
LegacyLines(seriesResult) ==
    SelectSeq(ASSET_KEYS, LAMBDA k : Len(seriesResult.series[k]) > 0)

\* renderFromRawRows -> renderFromSeries: createSvgRoot appends the svg, then
\* axes, title and legend are drawn into it, and a line for each asset that
\* has points
renderFromRawRows(pg, containerSelector, rows) ==
    IF RawRowsError(rows) # "" THEN pg
    ELSE [pg EXCEPT !.dom =
             AppendTo(pg.dom, containerSelector, Svg("", "finance"))]

\* whether the series list the render call builds from its rows is empty
SeriesListEmpty(rows) ==
    /\ IsArray(rows)
    /\ Len(buildSeries([rows |-> PlainRows(rows.v), meta |-> "none"],
                       DEFAULT_CONFIG.normalize).seriesList) = 0
LegacySeriesEmpty(rows) ==
    /\ IsArray(rows)
    /\ \A seriesResult \in buildSeriesByAsset(normalizeFinanceRows(rows.v)) :
          LegacyLines(seriesResult) = <<>>

\* the data of a call is a non-array, an empty array, or rows none of which
\* has a finite year and a finite price
NoFinanceData(rows) ==
    \/ ~IsArray(rows)
    \/ \A i \in DOMAIN rows.v :
          ~(/\ NumberIsFinite(rows.v[i].Year)
            /\ \E k \in AssetKeySet : NumberIsFinite(rows.v[i][k]))
NoUsageData(records) == ~IsArray(records) \/ Len(records.v) = 0

----------------------------------------------------------------------------
(* The render inputs and calls *)

\* two days of app A and one of app B
RenderUsageRows ==
    <<[date |-> 1, app |-> "A", h0 |-> Num(1), h1 |-> Num(3), h23 |-> Num(2)],
      [date |-> 2, app |-> "A", h0 |-> NaNv, h1 |-> Num(0), h23 |-> Num(2)],
      [date |-> 1, app |-> "B", h0 |-> Num(1), h1 |-> Num(0), h23 |-> Num(2)]>>

RenderPre ==
    [t |-> "obj", byApp |-> preprocessFromRawRows(RenderUsageRows).byApp]

RecordsArgs ==
    {Undef, Arr(<<>>), Arr(RenderPre.byApp["A"]), Arr(RenderPre.byApp["B"])}
RawRecordsArgs == {Undef, Arr(<<>>), Arr(RenderUsageRows)}
PreArgs == {Undef, RenderPre}
AppNamesArgs ==
    {Undef, Arr(<<>>), Arr(<<"A">>), Arr(<<"A", "B">>), Arr(<<"C", "A">>)}
RawAppNamesArgs == {Undef, Arr(<<>>), Arr(<<"A">>)}

RadialOptionsArgs ==
    {Undef}
    \cup {Options(c, "", title) :
            c \in {NoSel, Sel(SERIES1_PREFIX, "0"), Sel(SERIES1_PREFIX, "1")},
            title \in {"", "T"}}
PrefixOptionsArgs ==
    {Undef, Options(NoSel, "", ""), Options(NoSel, SERIES1_PREFIX, "")}
FinanceOptionsArgs ==
    {Undef, Options(NoSel, "", ""), Options(Sel("#series2", ""), "", "")}

FinanceRowsArgs ==
    {Undef, Arr(<<>>),
     Arr(<<[Year |-> Num(1), SPX |-> NaNv, NASDAQ |-> Undef, BTC |-> NaNv]>>),
     Arr(<<[Year |-> Num(1), SPX |-> Num(0), NASDAQ |-> Num(3),
            BTC |-> Num(2)],
           [Year |-> Num(2), SPX |-> NaNv, NASDAQ |-> Num(3),
            BTC |-> Num(1)]>>)}

NoCall == [op |-> "none", args |-> <<>>, missing |-> FALSE, empty |-> FALSE,
           invalid |-> FALSE]

RenderStart ==
    /\ page \in {[dom |-> d, tips1 |-> 0, tips2 |-> 0] :
                    d \in [Containers -> {<<>>, <<Placeholder>>}]}
    /\ pageBefore = page
    /\ rCall = NoCall
    /\ rThrown = ""
    /\ tipVisible = {}

CallRenderAppUsageRadialChart(records, options) ==
    /\ page' = renderAppUsageRadialChart(page, records, options)
    /\ pageBefore' = page
    /\ rCall' = [op |-> "renderAppUsageRadialChart", args |-> <<>>,
                 missing |-> ~HasContainer(options),
                 empty |-> FALSE, invalid |-> FALSE]
    /\ rThrown' = ""
    /\ UNCHANGED <<tipVisible, finVars, useVars, shVars, initVars, animVars>>

CallRenderForMultipleApps(preprocessResult, appNames, options) ==
    /\ page' = renderForMultipleApps(page, preprocessResult, appNames,
                                     options)
    /\ pageBefore' = page
    /\ rCall' = [op |-> "renderForMultipleApps",
                 args |-> <<preprocessResult, appNames, options>>,
                 missing |-> ~HasContainerPrefix(options),
                 empty |-> FALSE, invalid |-> FALSE]
    /\ rThrown' = ""
    /\ UNCHANGED <<tipVisible, finVars, useVars, shVars, initVars, animVars>>

CallRenderFromRows(rows, options) ==
    /\ page' = renderFromRows(page, rows, options)
    /\ pageBefore' = page
    /\ rCall' = [op |-> "renderFromRows", args |-> <<>>,
                 missing |-> ~HasContainer(options),
                 empty |-> SeriesListEmpty(rows),
                 invalid |-> HasContainer(options) /\ NoFinanceData(rows)]
    /\ rThrown' = ""
    /\ UNCHANGED <<tipVisible, finVars, useVars, shVars, initVars, animVars>>

\* the legacy chart is appended to what its container holds, so the number
\* of children is capped
CallRenderFromRawRecords(records, appNames, userOptions) ==
    /\ \A c \in Containers : Len(page.dom[c]) < MaxChildren
    /\ page' = renderFromRawRecords(page, records, appNames, userOptions)
    /\ pageBefore' = page
    /\ rCall' = [op |-> "renderFromRawRecords", args |-> <<>>,
                 missing |-> ~HasContainerPrefix(userOptions),
                 empty |-> FALSE,
                 invalid |-> /\ NoUsageData(records)
                             /\ RawRecordsError(Arr(<<>>), appNames,
                                                 userOptions) = ""]
    /\ rThrown' = RawRecordsError(records, appNames, userOptions)
    /\ UNCHANGED <<tipVisible, finVars, useVars, shVars, initVars, animVars>>

\* FinanceSeries2.renderFromRawRows of src/src/series2.js; its chart is
\* appended too
CallRenderFromRawRows(containerSelector, rows) ==
    /\ \A c \in Containers : Len(page.dom[c]) < MaxChildren
    /\ page' = renderFromRawRows(page, containerSelector, rows)
    /\ pageBefore' = page
    /\ rCall' = [op |-> "renderFromRawRows", args |-> <<>>,
                 missing |-> containerSelector = NoSel,
                 empty |-> LegacySeriesEmpty(rows),
                 invalid |-> containerSelector # NoSel
                             /\ NoFinanceData(rows)]
    /\ rThrown' = RawRowsError(rows)
    /\ UNCHANGED <<tipVisible, finVars, useVars, shVars, initVars, animVars>>

\* the calls of AppUsageSeries1 in src/src/series/series1.js alone
RadialNext ==
    \/ \E records \in RecordsArgs, options \in RadialOptionsArgs :
          CallRenderAppUsageRadialChart(records, options)
    \/ \E preprocessResult \in PreArgs, appNames \in AppNamesArgs,
          options \in PrefixOptionsArgs :
          CallRenderForMultipleApps(preprocessResult, appNames, options)

RenderNext ==
    \/ \E records \in RecordsArgs, options \in RadialOptionsArgs :
          CallRenderAppUsageRadialChart(records, options)
    \/ \E preprocessResult \in PreArgs, appNames \in AppNamesArgs,
          options \in PrefixOptionsArgs :
          CallRenderForMultipleApps(preprocessResult, appNames, options)
    \/ \E rows \in FinanceRowsArgs, options \in FinanceOptionsArgs :
          CallRenderFromRows(rows, options)
    \/ \E records \in RawRecordsArgs, appNames \in RawAppNamesArgs,
          userOptions \in PrefixOptionsArgs :
          CallRenderFromRawRecords(records, appNames, userOptions)
    \/ \E containerSelector \in {NoSel, SERIES2}, rows \in FinanceRowsArgs :
          CallRenderFromRawRows(containerSelector, rows)

----------------------------------------------------------------------------
(* The two page initialisations: the asynchronous init of                  *)
(* src/unnamed/part_001 and the synchronous init of src/src/main.js        *)

\* Array.from(byApp.keys()): the app names in order of first appearance
RECURSIVE KeysFrom(_, _)
KeysFrom(longRecords, seen) ==
    IF longRecords = <<>> THEN <<>>
    ELSE LET a == Head(longRecords).appName
         IN IF a \in seen THEN KeysFrom(Tail(longRecords), seen)
            ELSE <<a>> \o KeysFrom(Tail(longRecords), seen \cup {a})

\* .slice(0, 2)
FirstTwo(s) == SubSeq(s, 1, IF Len(s) < 2 THEN Len(s) ELSE 2)

SERIES1_ROOT == Sel("#series1", "")

\* part_001 renderSeries1(appData)
AsyncRenderSeries1(pg, appData) ==
    renderForMultipleApps(pg, [t |-> "obj", byApp |-> appData.byApp],
        Arr(FirstTwo(KeysFrom(appData.longRecords, {}))),
        Options(NoSel, SERIES1_PREFIX, ""))

\* a faulty variant: the finance continuation empties every container of the
\* page before it draws
AsyncRenderSeries2ClearingPage(pg, financeResult) ==
    renderInternal([pg EXCEPT !.dom = [c \in DOMAIN pg.dom |-> <<>>]],
                   financeResult, Options(SERIES2, "", ""))

\* part_001 renderSeries2(financeResult): renderFromPreprocessResult
AsyncRenderSeries2(pg, financeResult) ==
    renderInternal(pg, financeResult, Options(SERIES2, "", ""))

\* main.js appsToShow
appsToShow == <<"A", "B">>

\* main.js renderSeries1: the root is emptied, one div per app is created in
\* it, and renderFromRawRecords draws into the divs
SyncRenderSeries1(pg, appData) ==
    IF SERIES1_ROOT \notin DOMAIN pg.dom THEN pg
    ELSE LET old == {Sel(SERIES1_PREFIX, pg.dom[SERIES1_ROOT][i].title) :
                        i \in DOMAIN pg.dom[SERIES1_ROOT]}
             divs == {Sel(SERIES1_PREFIX, appsToShow[i]) :
                        i \in DOMAIN appsToShow}
             kept == (DOMAIN pg.dom \ old) \cup divs
             dom1 == [c \in kept |->
                        IF c = SERIES1_ROOT
                        THEN [i \in DOMAIN appsToShow |->
                                [tag |-> "div", cls |-> "series1-app-container",
                                 title |-> appsToShow[i]]]
                        ELSE IF c \in divs THEN <<>>
                        ELSE pg.dom[c]]
         IN renderFromRawRecords([pg EXCEPT !.dom = dom1], appData,
                Arr(appsToShow), Options(NoSel, SERIES1_PREFIX, ""))

\* main.js renderSeries2: the container is emptied, renderFromRawRows draws
SyncRenderSeries2(pg, finData) ==
    IF SERIES2 \notin DOMAIN pg.dom THEN pg
    ELSE renderFromRawRows([pg EXCEPT !.dom[SERIES2] = <<>>], SERIES2, finData)

\* main.js init: both data sets are checked before anything is rendered
SyncInitPage(pg, appData, finData) ==
    IF ~IsArray(appData) THEN pg
    ELSE IF ~IsArray(finData) THEN pg
    ELSE SyncRenderSeries2(SyncRenderSeries1(pg, appData), finData)

SyncInitLog(pg, appData, finData) ==
    IF ~IsArray(appData) THEN {"APP_USAGE_DATA not loaded"}
    ELSE IF ~IsArray(finData) THEN {"FINANCE_DATA not loaded"}
    ELSE (IF SERIES1_ROOT \notin DOMAIN pg.dom
          THEN {"Missing #series1 container"} ELSE {})
         \cup (IF SERIES2 \notin DOMAIN pg.dom
               THEN {"Missing #series2 container"} ELSE {})

\* the data sets of a page load
AppDataArgs == {Arr(RenderUsageRows), Arr(<<RenderUsageRows[3]>>)}
FinDataArgs == {r \in FinanceRowsArgs : IsArray(r) /\ Len(r.v) > 0}

\* the page of the asynchronous init has the containers #series1-app-0,
\* #series1-app-1 and #series2, that of the synchronous init #series1 and
\* #series2
AsyncContainers == {Sel(SERIES1_PREFIX, "0"), Sel(SERIES1_PREFIX, "1"), SERIES2}
SyncContainers == {SERIES1_ROOT, SERIES2}

InitStart ==
    /\ initPc \in {"async", "sync"}
    /\ page \in {[dom |-> d, tips1 |-> 0, tips2 |-> 0] :
                    d \in [IF initPc = "async" THEN AsyncContainers
                           ELSE SyncContainers -> {<<>>, <<Placeholder>>}]}
    /\ pageBefore = page
    /\ rCall = NoCall
    /\ rThrown = ""
    /\ tipVisible = {}
    /\ appLoad = "none"
    /\ finLoad = "none"
    /\ initApp = Undef
    /\ initFin = Undef
    /\ initLog = {}
    /\ readyState \in IF initPc = "async" THEN {"loading", "interactive"}
                      ELSE {"loading"}
    /\ listener = (initPc = "sync")
    /\ initRuns = 0
    /\ reRenders = 0

\* a faulty variant: init is registered for DOMContentLoaded whatever the
\* state of the document
DefersAlways(state) == TRUE

\* part_001 auto-start: document.readyState === "loading"
DefersInit(state) == state = "loading"

\* part_001 init: both loads are started
AsyncInit ==
    /\ appLoad' = "pending"
    /\ finLoad' = "pending"
    /\ initPc' = "loading"
    /\ initRuns' = initRuns + 1

\* part_001 is evaluated: init is registered for DOMContentLoaded while the
\* document is loading, and runs at once otherwise
AutoStart ==
    /\ initPc = "async"
    /\ IF DefersInit(readyState)
       THEN /\ listener' = TRUE
            /\ initPc' = "waiting"
            /\ UNCHANGED <<appLoad, finLoad, initRuns>>
       ELSE AsyncInit /\ UNCHANGED listener
    /\ UNCHANGED <<initApp, initFin, initLog, readyState, reRenders, domVars,
                   finVars, useVars, shVars, animVars>>

\* the document has been parsed: DOMContentLoaded is dispatched once, to the
\* listeners registered by then
DOMContentLoaded ==
    /\ initPc \in {"async", "waiting"}
    /\ readyState = "loading"
    /\ readyState' = "interactive"
    /\ IF listener THEN AsyncInit
       ELSE UNCHANGED <<appLoad, finLoad, initPc, initRuns>>
    /\ UNCHANGED <<initApp, initFin, initLog, listener, reRenders, domVars,
                   finVars, useVars, shVars, animVars>>

\* the app usage load resolves: .then(appData => renderSeries1(appData))
AppLoadResolves(rows) ==
    /\ initPc = "loading" /\ appLoad = "pending"
    /\ appLoad' = "loaded"
    /\ initApp' = rows
    /\ page' = AsyncRenderSeries1(page, preprocessFromRawRows(rows.v))
    /\ UNCHANGED <<readyState, listener, initRuns, reRenders, initPc, finLoad, initFin, initLog, tipVisible, pageBefore, rCall,
                   rThrown, finVars, useVars, shVars, animVars>>

\* the app usage load rejects: .catch(err => console.error(...))
AppLoadRejects ==
    /\ initPc = "loading" /\ appLoad = "pending"
    /\ appLoad' = "failed"
    /\ initLog' = initLog \cup {"Failed to load app usage CSV"}
    /\ UNCHANGED <<readyState, listener, initRuns, reRenders, initPc, finLoad, initApp, initFin, domVars, finVars,
                   useVars, shVars, animVars>>

\* the finance load resolves: .then(finance => renderSeries2(finance))
FinLoadResolves(rows) ==
    /\ initPc = "loading" /\ finLoad = "pending"
    /\ finLoad' = "loaded"
    /\ initFin' = rows
    /\ page' = AsyncRenderSeries2(page, preprocessFinanceRows(rows.v))
    /\ UNCHANGED <<readyState, listener, initRuns, reRenders, initPc, appLoad, initApp, initLog, tipVisible, pageBefore, rCall,
                   rThrown, finVars, useVars, shVars, animVars>>

\* the finance load rejects
FinLoadRejects ==
    /\ initPc = "loading" /\ finLoad = "pending"
    /\ finLoad' = "failed"
    /\ initLog' = initLog \cup {"Failed to load finance CSV"}
    /\ UNCHANGED <<readyState, listener, initRuns, reRenders, initPc, appLoad, initApp, initFin, domVars, finVars,
                   useVars, shVars, animVars>>

\* main.js init on DOMContentLoaded; a data script that failed to load
\* leaves its global undefined
SyncInit(appData, finData) ==
    /\ initPc = "sync"
    /\ readyState = "loading"
    /\ readyState' = "interactive"
    /\ initRuns' = initRuns + 1
    /\ initPc' = "done"
    /\ appLoad' = IF IsArray(appData) THEN "loaded" ELSE "failed"
    /\ finLoad' = IF IsArray(finData) THEN "loaded" ELSE "failed"
    /\ initApp' = appData
    /\ initFin' = finData
    /\ page' = SyncInitPage(page, appData, finData)
    /\ initLog' = initLog \cup SyncInitLog(page, appData, finData)
    /\ UNCHANGED <<listener, reRenders, tipVisible, pageBefore, rCall, rThrown, finVars,
                   useVars, shVars, animVars>>

\* renderSeries1 is called again with the loaded data: Main.renderSeries1 of
\* part_001, or renderSeries1 of main.js
RenderSeries1Again ==
    /\ \/ initPc = "loading" /\ appLoad = "loaded"
       \/ initPc = "done" /\ appLoad = "loaded" /\ finLoad = "loaded"
    /\ reRenders < MaxRenders
    /\ reRenders' = reRenders + 1
    /\ page' = IF initPc = "loading"
               THEN AsyncRenderSeries1(page, preprocessFromRawRows(initApp.v))
               ELSE SyncRenderSeries1(page, initApp)
    /\ UNCHANGED <<initPc, appLoad, finLoad, initApp, initFin, initLog,
                   readyState, listener, initRuns, tipVisible, pageBefore, rCall, rThrown,
                   finVars, useVars, shVars, animVars>>

\* renderSeries2 is called again with the loaded data
RenderSeries2Again ==
    /\ \/ initPc = "loading" /\ finLoad = "loaded"
       \/ initPc = "done" /\ appLoad = "loaded" /\ finLoad = "loaded"
    /\ reRenders < MaxRenders
    /\ reRenders' = reRenders + 1
    /\ page' = IF initPc = "loading"
               THEN AsyncRenderSeries2(page, preprocessFinanceRows(initFin.v))
               ELSE SyncRenderSeries2(page, initFin)
    /\ UNCHANGED <<initPc, appLoad, finLoad, initApp, initFin, initLog,
                   readyState, listener, initRuns, tipVisible, pageBefore, rCall, rThrown,
                   finVars, useVars, shVars, animVars>>

\* the page holds a chart whose marks carry the hover handlers of the
\* tooltip class
HasHoverChart(pg, cls) ==
    \E c \in DOMAIN pg.dom : \E i \in DOMAIN pg.dom[c] :
        pg.dom[c][i].cls = (IF cls = "series1-tooltip" THEN "series1-svg"
                            ELSE "series2-svg")

\* mouseenter on an arc or a point: the tooltip captured by the handlers is
\* displayed and filled
MouseEnter(cls) ==
    /\ HasHoverChart(page, cls)
    /\ cls \notin tipVisible
    /\ tipVisible' = tipVisible \cup {cls}
    /\ UNCHANGED <<page, pageBefore, rCall, rThrown, initVars, finVars,
                   useVars, shVars, animVars>>

\* mouseleave: the tooltip is hidden
MouseLeave(cls) ==
    /\ cls \in tipVisible
    /\ tipVisible' = tipVisible \ {cls}
    /\ UNCHANGED <<page, pageBefore, rCall, rThrown, initVars, finVars,
                   useVars, shVars, animVars>>

TooltipClasses == {"series1-tooltip", "series2-tooltip"}

InitNext ==
    \/ AutoStart
    \/ DOMContentLoaded
    \/ RenderSeries1Again
    \/ RenderSeries2Again
    \/ \E cls \in TooltipClasses : MouseEnter(cls)
    \/ \E cls \in TooltipClasses : MouseLeave(cls)
    \/ \E rows \in AppDataArgs : AppLoadResolves(rows)
    \/ AppLoadRejects
    \/ \E rows \in FinDataArgs : FinLoadResolves(rows)
    \/ FinLoadRejects
    \/ \E appData \in AppDataArgs \cup {Undef},
          finData \in FinDataArgs \cup {Undef} : SyncInit(appData, finData)

----------------------------------------------------------------------------
(* PageAnimation (src/unnamed/part_002): the scroll entry animations and   *)
(* the stagger of the series-1 cards                                       *)

AnimElems == {"hero", "panel"}
SECTION == "series1-section"

\* a faulty variant: an entry that does not intersect pauses the animation
handleIntersectPausing(state, isIntersecting) ==
    IF isIntersecting THEN "running" ELSE "paused"

\* handleIntersect: the play state of the target of one entry
handleIntersect(state, isIntersecting) ==
    IF isIntersecting THEN "running" ELSE state

\* applyStaggerToCards on st = [timers, retries, staggered]: without cards
\* a timer of 260 ms is set, with cards they get their transition
applyStaggerToCards(st, cards) ==
    IF ~cards
    THEN [st EXCEPT !.timers = @ + 1, !.retries = @ + 1]
    ELSE [st EXCEPT !.staggered = TRUE]

StaggerState == [timers |-> timers, retries |-> retries,
                 staggered |-> staggered]

SetStagger(st) ==
    /\ timers' = st.timers
    /\ retries' = st.retries
    /\ staggered' = st.staggered

\* setupScrollEntryAnimations: the play states of the animated elements
setupScrollEntryAnimations ==
    /\ playState' = [e \in AnimElems |->
                        IF e \notin animated THEN playState[e]
                        ELSE IF ioSupported THEN "paused" ELSE "running"]
    /\ everRunning' = IF ioSupported THEN {} ELSE animated

\* setupSeries1Stagger: without the section nothing; without
\* IntersectionObserver the cards are handled at once; else the section is
\* observed
setupSeries1Stagger ==
    IF hasSection /\ ~ioSupported
    THEN SetStagger(applyStaggerToCards(StaggerState, cardsPresent))
    ELSE UNCHANGED <<timers, retries, staggered>>

AnimStart ==
    /\ animPc = "start"
    /\ ioSupported \in BOOLEAN
    /\ animated \in SUBSET AnimElems
    /\ hasSection \in BOOLEAN
    /\ playState = [e \in AnimElems |-> ""]
    /\ observed = {}
    /\ queued = {}
    /\ cardsPresent \in BOOLEAN
    /\ timers = 0
    /\ retries = 0
    /\ staggered = FALSE
    /\ everRunning = {}
    /\ changes = [e \in AnimElems |-> 0]

\* DOMContentLoaded: PageAnimation.init
PageAnimationInit ==
    /\ animPc = "start"
    /\ animPc' = "ready"
    /\ setupScrollEntryAnimations
    /\ setupSeries1Stagger
    /\ observed' = IF ioSupported
                   THEN animated \cup (IF hasSection THEN {SECTION} ELSE {})
                   ELSE {}
    /\ UNCHANGED <<ioSupported, animated, hasSection, queued, cardsPresent,
                   changes, finVars, useVars, shVars, domVars, initVars>>

\* the browser queues an entry for an observed target
QueueEntry(target, isIntersecting) ==
    /\ animPc = "ready"
    /\ target \in observed
    /\ <<target, isIntersecting>> \notin queued
    /\ queued' = queued \cup {<<target, isIntersecting>>}
    /\ UNCHANGED <<animPc, ioSupported, animated, hasSection, playState,
                   observed, cardsPresent, timers, retries, staggered,
                   everRunning, changes, finVars, useVars, shVars, domVars,
                   initVars>>

\* handleIntersect is called with a queued entry of an animated element; an
\* entry queued before unobserve is still delivered
DeliverElementEntry(target, isIntersecting) ==
    /\ <<target, isIntersecting>> \in queued
    /\ target \in AnimElems
    /\ queued' = queued \ {<<target, isIntersecting>>}
    /\ playState' = [playState EXCEPT
                        ![target] = handleIntersect(@, isIntersecting)]
    /\ observed' = IF isIntersecting THEN observed \ {target} ELSE observed
    /\ everRunning' = IF playState'[target] = "running"
                      THEN everRunning \cup {target} ELSE everRunning
    /\ changes' = [changes EXCEPT
                      ![target] = IF playState'[target] # playState[target]
                                  THEN @ + 1 ELSE @]
    /\ UNCHANGED <<animPc, ioSupported, animated, hasSection, cardsPresent,
                   timers, retries, staggered, finVars, useVars, shVars,
                   domVars, initVars>>

\* sectionObserverCallback is called with a queued entry of the section
DeliverSectionEntry(isIntersecting) ==
    /\ <<SECTION, isIntersecting>> \in queued
    /\ (isIntersecting /\ ~cardsPresent) => retries < MaxRetries
    /\ queued' = queued \ {<<SECTION, isIntersecting>>}
    /\ IF isIntersecting
       THEN /\ SetStagger(applyStaggerToCards(StaggerState, cardsPresent))
            /\ observed' = observed \ {SECTION}
       ELSE UNCHANGED <<timers, retries, staggered, observed>>
    /\ UNCHANGED <<animPc, ioSupported, animated, hasSection, playState,
                   cardsPresent, everRunning, changes, finVars, useVars,
                   shVars, domVars, initVars>>

\* a timer set by applyStaggerToCards fires: applyStaggerToCards runs again
StaggerTimerFires ==
    /\ timers > 0
    /\ ~cardsPresent => retries < MaxRetries
    /\ SetStagger(applyStaggerToCards(
           [StaggerState EXCEPT !.timers = @ - 1], cardsPresent))
    /\ UNCHANGED <<animPc, ioSupported, animated, hasSection, playState,
                   observed, queued, cardsPresent, everRunning, changes,
                   finVars, useVars, shVars, domVars, initVars>>

\* the charts of series 1 are rendered: the cards are in the section
CardsAppear ==
    /\ animPc = "ready"
    /\ ~cardsPresent
    /\ cardsPresent' = TRUE
    /\ UNCHANGED <<animPc, ioSupported, animated, hasSection, playState,
                   observed, queued, timers, retries, staggered, everRunning,
                   changes, finVars, useVars, shVars, domVars, initVars>>

AnimNext ==
    \/ PageAnimationInit
    \/ \E target \in AnimElems \cup {SECTION}, isIntersecting \in BOOLEAN :
          QueueEntry(target, isIntersecting)
    \/ \E target \in AnimElems, isIntersecting \in BOOLEAN :
          DeliverElementEntry(target, isIntersecting)
    \/ \E isIntersecting \in BOOLEAN : DeliverSectionEntry(isIntersecting)
    \/ StaggerTimerFires
    \/ CardsAppear

----------------------------------------------------------------------------
(* Properties of the series builder *)

FinBuilt == finPc \in {"builtRows", "builtPre"}

\* the points of the series of one asset, <<>> when the asset is not listed
SeriesPointsOf(out, key) ==
    LET hits == SelectSeq(out.seriesList, LAMBDA s : s.key = key)
    IN IF hits = <<>> THEN <<>> ELSE hits[1].points

\* the input rows that carry a year and a price for the asset
PricedRows(key) ==
    {i \in DOMAIN finRows :
        finRows[i].Year.t = "num" /\ finRows[i][key].t = "num"}

\* C1: a row whose price for an asset is absent (NaN, null, undefined) gives
\* no point in that asset's series, from plain rows and from the preprocess
\* result alike: the series has one point per row that carries a year and a
\* price, and no other.
C1_AbsentPriceGivesNoPoint ==
    FinBuilt =>
        \A key \in AssetKeySet :
            Len(SeriesPointsOf(finOut, key)) = Cardinality(PricedRows(key))

\* the rows with every hourly cell whose numeric coercion is not finite
\* replaced by the number 0
ZeroIfNotFinite(cell) ==
    IF NumberIsFinite(ToNumber(cell)) THEN cell ELSE Num(0)
WithNotFiniteAsZero(rows) ==
    [i \in DOMAIN rows |->
        [rows[i] EXCEPT !.h0 = ZeroIfNotFinite(@), !.h1 = ZeroIfNotFinite(@),
                        !.h23 = ZeroIfNotFinite(@)]]

\* C19: a missing or unparseable hourly value is treated as zero: toNumber
\* gives 0 for every cell whose numeric coercion is not finite, and such a
\* cell adds nothing to any 12-period cell or 24-hour slot: the long
\* records, the grid and the hourly series are those of the rows with these
\* cells set to 0.
C19_UnparseableMinutesCountAsZero ==
    /\ \A i \in DOMAIN useRows, h \in 0..23 :
          ~NumberIsFinite(ToNumber(HourCell(useRows[i], h)))
              => toNumber(HourCell(useRows[i], h)) = 0
    /\ usePc \in {"preprocessed", "grid", "aggregated"} =>
          usePre = preprocessFromRawRows(WithNotFiniteAsZero(useRows))
    /\ usePc = "grid" =>
          useGrid = buildShichenDateData(
                        preprocessFromRawRows(
                            WithNotFiniteAsZero(useRows)).byApp[useApp],
                        useApp)
    /\ usePc = "hourly" =>
          useHourly = buildHourlySeriesForApp(
                          groupByApp(WithNotFiniteAsZero(useRows))[useApp])

\* C6: with normalization enabled, a series whose first (lowest-year) raw
\* value is > 0 has every value equal to rawValue / that first raw value, so
\* its first value is exactly 1; a series whose first raw value is <= 0 keeps
\* every rawValue unchanged.
C6_NormalizedByFirstValue ==
    (FinBuilt /\ finOut.normalize) =>
        \A s \in DOMAIN finOut.seriesList :
            LET pts == finOut.seriesList[s].points
                first == pts[1].rawValue
            IN /\ \A p \in DOMAIN pts : pts[1].year <= pts[p].year
               /\ first > 0 =>
                    /\ pts[1].value = Frac(1, 1)
                    /\ \A p \in DOMAIN pts :
                          pts[p].value = Frac(pts[p].rawValue, first)
               /\ first <= 0 =>
                    \A p \in DOMAIN pts :
                        pts[p].value = Frac(pts[p].rawValue, 1)

\* a normalized result holding a series that starts at a positive price and
\* moves away from 1, and a series that starts at 0
C6_Witness ==
    /\ FinBuilt /\ finOut.normalize
    /\ \E s \in DOMAIN finOut.seriesList :
          LET pts == finOut.seriesList[s].points
          IN /\ Len(pts) >= 2
             /\ pts[1].rawValue > 0
             /\ pts[1].year < pts[2].year
             /\ pts[2].value = Frac(2, 1)
    /\ \E s \in DOMAIN finOut.seriesList :
          LET pts == finOut.seriesList[s].points
          IN pts[1].rawValue <= 0 /\ Len(pts) >= 2

\* the points of a series of buildSeriesByAsset with their years as numbers
LegacyPoints(k) ==
    [i \in DOMAIN finLegacy.series[k] |->
        [year |-> finLegacy.series[k][i].year.v,
         value |-> finLegacy.series[k][i].value]]

NonDecreasingYears(pts) ==
    \A i, j \in DOMAIN pts : i < j => pts[i].year <= pts[j].year
StrictlyIncreasingYears(pts) ==
    \A i, j \in DOMAIN pts : i < j => pts[i].year < pts[j].year

\* no two input rows carry the same year
InputYearsUnique ==
    \A i, j \in DOMAIN finRows :
        (i # j /\ finRows[i].Year.t = "num") => finRows[i].Year # finRows[j].Year

\* C7 as stated: in every per-asset series of buildSeries and of
\* buildSeriesByAsset the years are strictly increasing, whatever the input
\* rows, whether or not their years are unique.
C7_StrictlyIncreasingAlways ==
    /\ FinBuilt =>
          \A s \in DOMAIN finOut.seriesList :
              StrictlyIncreasingYears(finOut.seriesList[s].points)
    /\ finPc = "builtLegacy" =>
          \A k \in AssetKeySet : StrictlyIncreasingYears(LegacyPoints(k))

\* C7 as amended: in every per-asset series of buildSeries and of
\* buildSeriesByAsset the years are in ascending (non-decreasing) order for
\* rows in any order, and strictly increasing, so that no year occurs twice,
\* when no two input rows carry the same year.
C7_AscendingAndStrictWhenUnique ==
    /\ FinBuilt =>
          \A s \in DOMAIN finOut.seriesList :
              /\ NonDecreasingYears(finOut.seriesList[s].points)
              /\ InputYearsUnique =>
                    StrictlyIncreasingYears(finOut.seriesList[s].points)
    /\ finPc = "builtLegacy" =>
          \A k \in AssetKeySet :
              /\ NonDecreasingYears(LegacyPoints(k))
              /\ InputYearsUnique =>
                    StrictlyIncreasingYears(LegacyPoints(k))

\* rows given in descending year order, and a series of two points built
\* from them
C7_Witness ==
    /\ finPc = "builtRows"
    /\ Len(finRows) = 2
    /\ finRows[1].Year = Num(2) /\ finRows[2].Year = Num(1)
    /\ \E s \in DOMAIN finOut.seriesList :
          Len(finOut.seriesList[s].points) = 2

\* what buildSeries was called with
FinInput ==
    IF finPc = "builtPre"
    THEN [rows |-> finPre.rows, meta |-> finPre.meta]
    ELSE [rows |-> PlainRows(finRows), meta |-> "none"]

\* the same input with one asset's column removed
WithoutColumn(input, key) ==
    [rows |-> [i \in DOMAIN input.rows |->
                  [input.rows[i] EXCEPT ![key] = Undef]],
     meta |-> input.meta]

\* C8: an asset none of whose rows has a finite price is absent from
\* seriesList, and the series list is the one built when that asset's
\* column is removed from the input.
C8_AssetWithoutPriceDropped ==
    FinBuilt =>
        \A key \in AssetKeySet :
            (\A i \in DOMAIN finRows : finRows[i][key].t # "num") =>
                /\ SeriesPointsOf(finOut, key) = <<>>
                /\ finOut.seriesList =
                      buildSeries(WithoutColumn(FinInput, key),
                                  finOut.normalize).seriesList

\* C9: years is the union of the years of the emitted series, ascending and
\* without duplicates; yDomain is [min, max] of the values of all points,
\* widened when normalization is enabled so that it reaches down to 0.8 and
\* up to 1.2 at least.
C9_YearsAndYDomain ==
    FinBuilt =>
        LET pts == AllPoints(finOut.seriesList)
            vals == {p.value : p \in pts}
            years == finOut.years
            lo == finOut.yDomain[1]
            hi == finOut.yDomain[2]
        IN /\ {years[i] : i \in DOMAIN years} = {p.year : p \in pts}
           /\ \A i, j \in DOMAIN years : i < j => years[i] < years[j]
           /\ finOut.normalize =>
                 FracLeq(lo, Frac(4, 5)) /\ FracLeq(Frac(6, 5), hi)
           /\ (vals # {} /\ ~finOut.normalize) =>
                 /\ lo \in vals /\ hi \in vals
                 /\ \A v \in vals : FracLeq(lo, v) /\ FracLeq(v, hi)
           /\ (vals # {} /\ finOut.normalize) =>
                 /\ \A v \in vals : FracLeq(lo, v) /\ FracLeq(v, hi)
                 /\ lo \in vals \cup {Frac(4, 5)}
                 /\ hi \in vals \cup {Frac(6, 5)}

\* a normalized result of two series over different years, all of whose
\* values lie strictly inside [0.8, 1.2]
C9_Witness ==
    /\ FinBuilt /\ finOut.normalize
    /\ Len(finOut.seriesList) = 2
    /\ Len(finOut.years) = 2
    /\ finOut.seriesList[1].points[1].year # finOut.seriesList[2].points[1].year
    /\ \A p \in AllPoints(finOut.seriesList) : p.value = Frac(1, 1)
    /\ finOut.yDomain = <<Frac(4, 5), Frac(6, 5)>>

----------------------------------------------------------------------------
(* Properties of the usage aggregation *)

\* C2: for every hour h of 0..23, getShichenIndex(h) is
\* floor(((h + 1) mod 24) / 2), a period of 0..11, and hours 23 and 0 both
\* give period 0.
C2_ShichenIndexOfHour ==
    (shPc = "called" /\ shHour \in 0..23) =>
        /\ shIdx = ((shHour + 1) % 24) \div 2
        /\ shIdx \in 0..11
        /\ shHour \in {0, 23} => shIdx = 0
        /\ shHour \in 1..22 => shIdx \in {k \in 1..11 : shHour \in {2 * k - 1, 2 * k}}

\* the call on hour 23, which wraps to period 0
C2_Witness == shPc = "called" /\ shHour = 23 /\ shIdx = 0

\* the raw rows of the charted app
AppRows == SelectSeq(useRows, LAMBDA d : d.app = useApp)

RECURSIVE SumOver(_, _)
SumOver(S, f) ==
    IF S = {} THEN 0
    ELSE LET x == CHOOSE y \in S : TRUE IN f[x] + SumOver(S \ {x}, f)

\* the sum of the 24 hourly cells of every row of the app
RawMinutes(rows) ==
    SumOver(DOMAIN rows,
            [i \in DOMAIN rows |->
                SumOver(0..23, [h \in 0..23 |-> HourCell(rows[i], h).v])])

GridMinutes(flatData) ==
    SumOver(DOMAIN flatData, [i \in DOMAIN flatData |-> flatData[i].minutes])

AllCellsNonNegative(rows) ==
    \A i \in DOMAIN rows : \A h \in 0..23 :
        HourCell(rows[i], h).t = "num" /\ HourCell(rows[i], h).v >= 0

AllRowsDated(rows) == \A i \in DOMAIN rows : rows[i].date # 0

\* C3 as stated: for an app whose hourly values are all non-negative, the
\* minutes of all cells of its grid add up to the sum of its 24 hourly values
\* over all of its input rows.
C3_ConservationAnyRows ==
    (usePc = "grid" /\ AllCellsNonNegative(AppRows)) =>
        GridMinutes(useGrid.flatData) = RawMinutes(AppRows)

\* C3 as amended: for an app whose hourly values are all non-negative and
\* whose rows all carry a non-empty date, the minutes of all cells of its
\* grid add up to the sum of its 24 hourly values over all of its input rows.
C3_ConservationDatedRows ==
    (usePc = "grid" /\ AllCellsNonNegative(AppRows) /\ AllRowsDated(AppRows)) =>
        GridMinutes(useGrid.flatData) = RawMinutes(AppRows)

\* two dated rows of app A with non-negative cells, on different days, and
\* their 9 minutes in the grid
C3_Witness ==
    /\ usePc = "grid" /\ useApp = "A"
    /\ Len(AppRows) = 2
    /\ AllCellsNonNegative(AppRows) /\ AllRowsDated(AppRows)
    /\ AppRows[1].date # AppRows[2].date
    /\ RawMinutes(AppRows) = 9
    /\ GridMinutes(useGrid.flatData) = 9

PositivePart(n) == IF n > 0 THEN n ELSE 0

\* C4: a cell's minutes are the sum of the positive minutes of the app's long
\* records with the cell's period and date; hours 0 and 23 of a row both add
\* into period 0 of the row's own date; and a cell that holds more minutes
\* than every other cell is the annotated peak.
C4_CellIsSumOfItsRecords ==
    usePc = "grid" =>
        LET data == useGrid.flatData
            recs == usePre.byApp[useApp]
        IN \A c \in DOMAIN data :
              /\ data[c].minutes =
                    SumOver({r \in DOMAIN recs :
                                /\ recs[r].minutes > 0
                                /\ recs[r].shichenIndex = data[c].shichenIndex
                                /\ recs[r].dateStr = data[c].dateStr},
                            [r \in DOMAIN recs |-> recs[r].minutes])
              /\ data[c].shichenIndex = 0 =>
                    data[c].minutes =
                        SumOver({i \in DOMAIN AppRows :
                                    AppRows[i].date = data[c].dateStr},
                                [i \in DOMAIN AppRows |->
                                    PositivePart(toNumber(AppRows[i].h0))
                                    + PositivePart(toNumber(AppRows[i].h23))])
              /\ (\A o \in DOMAIN data :
                     o # c => data[o].minutes < data[c].minutes) =>
                    PeakIndex(data) = c

\* one row with 1 minute in hour 0 and 2 minutes in hour 23: the cell of
\* period 0 on the row's date holds 3 minutes and is the peak
C4_Witness ==
    /\ usePc = "grid"
    /\ Len(AppRows) = 1
    /\ AppRows[1].h0 = Num(1) /\ AppRows[1].h23 = Num(2) /\ AppRows[1].h1 = Num(0)
    /\ \E c \in DOMAIN useGrid.flatData :
          /\ useGrid.flatData[c].shichenIndex = 0
          /\ useGrid.flatData[c].dateStr = AppRows[1].date
          /\ useGrid.flatData[c].minutes = 3
          /\ PeakIndex(useGrid.flatData) = c

\* the rows with every hourly value <= 0 taken out (the cell left undefined)
DropNonPositive(cell) ==
    IF cell.t = "num" /\ cell.v <= 0 THEN Undef ELSE cell

WithoutNonPositive(rows) ==
    [i \in DOMAIN rows |->
        [rows[i] EXCEPT !.h0 = DropNonPositive(@), !.h1 = DropNonPositive(@),
                        !.h23 = DropNonPositive(@)]]

\* C5: an hourly value <= 0 adds nothing to any bucket: the 12-period grid
\* and the 24-hour series are those built from the same rows with every such
\* value absent.
C5_NonPositiveAddsNothing ==
    /\ usePc = "grid" =>
          LET recs == preprocessFromRawRows(
                          WithoutNonPositive(useRows)).byApp[useApp]
          IN /\ recs = usePre.byApp[useApp]
             /\ useGrid = buildShichenDateData(recs, useApp)
    /\ usePc = "hourly" =>
          useHourly = buildHourlySeriesForApp(
                          groupByApp(WithoutNonPositive(useRows))[useApp])

\* the records the grid of useApp was built from
GridRecords == usePre.byApp[useApp]

\* C12: buildShichenDateData returns exactly 12 x D cells, D being the number
\* of distinct non-empty date strings of the records; every pair of a period
\* in 0..11 and a date is in exactly one cell; dates are distinct and
\* ascending; each cell's dateIndex is the position of its dateStr in dates.
C12_GridIsTwelveByDates ==
    usePc = "grid" =>
        LET D == Cardinality({GridRecords[i].dateStr :
                                 i \in DOMAIN GridRecords} \ {0})
            cells == useGrid.flatData
            dates == useGrid.dates
        IN /\ Len(cells) = 12 * D
           /\ Len(dates) = D
           /\ \A i, j \in DOMAIN dates : i < j => dates[i] < dates[j]
           /\ \A i \in DOMAIN dates :
                 /\ dates[i] # 0
                 /\ \E r \in DOMAIN GridRecords :
                       GridRecords[r].dateStr = dates[i]
           /\ \A p \in 0..11 : \A i \in DOMAIN dates :
                 Cardinality({c \in DOMAIN cells :
                                 /\ cells[c].shichenIndex = p
                                 /\ cells[c].dateStr = dates[i]}) = 1
           /\ \A c \in DOMAIN cells :
                 /\ cells[c].dateIndex \in 0..(D - 1)
                 /\ dates[cells[c].dateIndex + 1] = cells[c].dateStr

\* records of two days, those of the later day first: a grid of 24 cells
C12_Witness ==
    /\ usePc = "grid"
    /\ Len(useGrid.flatData) = 24
    /\ GridRecords[1].dateStr = 2
    /\ useGrid.dates = <<1, 2>>

\* hour h lies in the window of a SHICHEN entry (which may wrap at midnight)
InWindow(entry, h) ==
    IF entry.from < entry.to THEN entry.from <= h /\ h < entry.to
    ELSE entry.from <= h \/ h < entry.to

\* C13: each of the 12 periods is the image under getShichenIndex of exactly
\* two hours of 0..23, consecutive modulo 24: hours 2p-1 and 2p for a period
\* p >= 1, hours 23 and 0 for period 0; these are the hours of the period's
\* window in the SHICHEN table.
C13_TwoConsecutiveHoursPerPeriod ==
    (shPc = "called" /\ shHour \in 0..23) =>
        LET p == shIdx
            hours == {h \in 0..23 : getShichenIndex(h) = p}
        IN /\ p \in 0..11
           /\ shHour \in hours
           /\ hours = IF p = 0 THEN {23, 0} ELSE {2 * p - 1, 2 * p}
           /\ Cardinality(hours) = 2
           /\ SHICHEN[p + 1].index = p
           /\ hours = {h \in 0..23 : InWindow(SHICHEN[p + 1], h)}

\* the call for hour 13, the first hour of period 7 (13:00-15:00)
C13_Witness == shPc = "called" /\ shHour = 13 /\ shIdx = 7

\* the chart of useApp has been drawn
Charted == usePc \in {"grid", "drawn"}

\* C14: the annotated peak is the cell with the maximum minutes, on ties the
\* first such cell of the flattened grid; there is exactly one annotation
\* when some cell has positive minutes and none when every cell is zero or
\* the grid is empty.
C14_PeakIsFirstMaximum ==
    Charted =>
        LET data == useGrid.flatData
            ann == useChart.annotation
        IN IF \E i \in DOMAIN data : data[i].minutes > 0
           THEN /\ Len(ann) = 1
                /\ \E k \in DOMAIN data :
                      /\ ann[1] = data[k]
                      /\ \A i \in DOMAIN data :
                            data[i].minutes <= data[k].minutes
                      /\ \A i \in 1..(k - 1) :
                            data[i].minutes < data[k].minutes
           ELSE ann = <<>>

\* two cells tie for the maximum and the annotation is on the earlier one
C14_Witness ==
    /\ usePc = "grid"
    /\ Len(useChart.annotation) = 1
    /\ \E i, j \in DOMAIN useGrid.flatData :
          /\ i < j
          /\ useGrid.flatData[i].minutes = useGrid.maxMinutes
          /\ useGrid.flatData[j].minutes = useGrid.maxMinutes
          /\ useChart.annotation[1] = useGrid.flatData[i]

\* buildShichenDateData has returned
Aggregated == usePc \in {"grid", "drawn", "aggregated"}

\* C15: for an empty record list the aggregation returns an empty grid, an
\* empty date list and maxMinutes = 0; in general maxMinutes is the largest
\* minutes value among the cells of the grid.
C15_EmptyGridAndMaxMinutes ==
    /\ (usePc = "aggregated" /\ usePre.byApp[useApp] = <<>>) =>
          /\ useGrid.flatData = <<>>
          /\ useGrid.dates = <<>>
          /\ useGrid.maxMinutes = 0
    /\ (Aggregated /\ useGrid.flatData # <<>>) =>
          /\ \E i \in DOMAIN useGrid.flatData :
                useGrid.flatData[i].minutes = useGrid.maxMinutes
          /\ \A i \in DOMAIN useGrid.flatData :
                useGrid.flatData[i].minutes <= useGrid.maxMinutes

\* the aggregation of app B, which has no record, next to rows of app A
C15_Witness ==
    /\ usePc = "aggregated" /\ useApp = "B"
    /\ usePre.byApp["B"] = <<>> /\ usePre.byApp["A"] # <<>>
    /\ useGrid.flatData = <<>>

\* C16: the arcs drawn for an app are exactly the cells of the grid with
\* minutes > 0, each once and in grid order; a cell with zero minutes stays
\* in flatData but is bound to no arc.
C16_ArcsArePositiveCells ==
    Charted =>
        LET data == useGrid.flatData
            arcs == useChart.arcs
        IN /\ \A a \in DOMAIN arcs :
                 /\ arcs[a].minutes > 0
                 /\ \E i \in DOMAIN data : data[i] = arcs[a]
           /\ \A i \in DOMAIN data :
                 Cardinality({a \in DOMAIN arcs : arcs[a] = data[i]})
                     = IF data[i].minutes > 0 THEN 1 ELSE 0
           /\ \A a, b \in DOMAIN arcs :
                 a < b => \E i, j \in DOMAIN data :
                             i < j /\ data[i] = arcs[a] /\ data[j] = arcs[b]

\* a grid of two days with three arcs; its other 21 cells hold zero minutes
C16_Witness ==
    /\ usePc = "grid"
    /\ Len(useGrid.flatData) = 24
    /\ Len(useChart.arcs) = 3
    /\ \E i \in DOMAIN useGrid.flatData : useGrid.flatData[i].minutes = 0

----------------------------------------------------------------------------
(* Properties of the render entry points *)

\* C10: a render call whose required option is missing (no container for
\* renderAppUsageRadialChart and renderInternal, no containerPrefix for
\* renderForMultipleApps and renderFromRawRecords) returns with the page as
\* it was before the call and throws nothing.
C10_MissingOptionAbortsQuietly ==
    rCall.missing => (page = pageBefore /\ rThrown = "")

\* C20: empty or fully-invalid input (a non-array, an empty array, or rows
\* none of which qualifies), handed to renderFromRows, renderFromRawRows or
\* renderFromRawRecords with the other arguments in order, never throws, and
\* the call returns with nothing drawn: the page is as it was.
C20_InvalidInputDrawsNothingAndNeverThrows ==
    rCall.invalid => (rThrown = "" /\ page = pageBefore)

\* the years of the input rows that are finite numbers
ParseableYears ==
    {finRows[i].Year.v :
        i \in {j \in DOMAIN finRows : finRows[j].Year.t = "num"}}
ParseableCount ==
    Cardinality({j \in DOMAIN finRows : finRows[j].Year.t = "num"})

\* C18: only rows with a parseable (finite numeric) year are retained: a row
\* whose year is missing, null or NaN yields no row of preprocessFinanceRows
\* and no point in any series of buildSeries or of normalizeFinanceRows +
\* buildSeriesByAsset; every retained row and point carries the year of an
\* input row with a finite numeric year, and there are no more of them than
\* such rows.
C18_OnlyParseableYearsRetained ==
    /\ finPc \in {"preprocessed", "builtPre"} =>
          /\ Len(finPre.rows) <= ParseableCount
          /\ \A i \in DOMAIN finPre.rows :
                finPre.rows[i].year.v \in ParseableYears
    /\ FinBuilt =>
          \A s \in DOMAIN finOut.seriesList :
              LET pts == finOut.seriesList[s].points
              IN /\ Len(pts) <= ParseableCount
                 /\ \A p \in DOMAIN pts : pts[p].year \in ParseableYears
    /\ finPc = "builtLegacy" =>
          \A k \in AssetKeySet :
              LET pts == finLegacy.series[k]
              IN /\ Len(pts) <= ParseableCount
                 /\ \A p \in DOMAIN pts :
                       /\ pts[p].year.t = "num"
                       /\ pts[p].year.v \in ParseableYears

\* C17: when every asset is dropped (the series list built from the rows is
\* empty) nothing is rendered: no svg is created and the page, with the
\* children of the target container, is as it was before the call; for
\* renderInternal and for renderFromRawRows / renderFromSeries.
C17_EmptySeriesListSkipsRendering ==
    rCall.empty => page = pageBefore

----------------------------------------------------------------------------
(* Properties of the page initialisation *)

HasSvg(pg, selector) ==
    /\ selector \in DOMAIN pg.dom
    /\ \E i \in DOMAIN pg.dom[selector] : pg.dom[selector][i].tag = "svg"

\* a chart of the app usage data is on the page: in #series1-app-0 for the
\* asynchronous init, in the div of the first app for the synchronous one
Series1Rendered ==
    \/ HasSvg(page, Sel(SERIES1_PREFIX, "0"))
    \/ HasSvg(page, Sel(SERIES1_PREFIX, appsToShow[1]))
Series2Rendered == HasSvg(page, SERIES2)

\* the loaded finance rows carry at least one finite price
FinHasPrices ==
    /\ IsArray(initFin)
    /\ \E i \in DOMAIN initFin.v : \E k \in AssetKeySet :
          NumberIsFinite(initFin.v[i][k])

\* C11: when one data set fails to load, the failure is logged, that data
\* set's chart is not rendered and the chart of the other data set, once it
\* has loaded, is rendered; for the asynchronous and the synchronous init.
C11_FailedLoadIsLocal ==
    /\ (appLoad = "failed" /\ finLoad = "loaded" /\ FinHasPrices) =>
          (Series2Rendered /\ ~Series1Rendered /\ initLog # {})
    /\ (finLoad = "failed" /\ appLoad = "loaded") =>
          (Series1Rendered /\ ~Series2Rendered /\ initLog # {})

----------------------------------------------------------------------------
(* Specifications: one per pipeline, the others idle *)

FinIdle ==
    /\ finRows = <<>>
    /\ finPc = "idle"
    /\ finPre = NoPre
    /\ finOut = NoOut
    /\ finLegacy = NoLegacy

UseIdle ==
    /\ useRows = <<>>
    /\ usePc = "idle"
    /\ usePre = NoUsePre
    /\ useApp = "none"
    /\ useGrid = NoGrid
    /\ useHourly = <<>>
    /\ useChart = NoChart

ShIdle == shPc = "off" /\ shHour = 0 /\ shIdx = 0

RenderIdle ==
    /\ page = [dom |-> [c \in Containers |-> <<>>], tips1 |-> 0, tips2 |-> 0]
    /\ pageBefore = page
    /\ rCall = NoCall
    /\ rThrown = ""
    /\ tipVisible = {}

\* the value of an hourly cell as the 24-hour series reads it: a number that
\* is not NaN, or the leading digits of a string; nothing otherwise
ParseableHour(cell) == IF cell.t \in {"num", "str"} THEN cell.v ELSE 0

\* C23: buildHourlySeriesForApp returns exactly 24 entries with hour 0..23
\* in ascending order, for any records including none, and the value of
\* entry h is the sum over the records of their parseable hour-h values.
C23_TwentyFourSlotsOfSums ==
    usePc = "hourly" =>
        /\ Len(useHourly) = 24
        /\ \A k \in 1..24 :
              /\ useHourly[k].hour = k - 1
              /\ useHourly[k].value =
                    SumOver({i \in DOMAIN useRows : useRows[i].app = useApp},
                            [i \in DOMAIN useRows |->
                                ParseableHour(HourCell(useRows[i], k - 1))])

\* two rows of the app, the hour 0 of one is NaN and that of the other a
\* number, and hour 23 holds a negative value in both
C23_Witness ==
    /\ usePc = "hourly"
    /\ Len(useRows) = 2
    /\ useRows[1].app = useApp /\ useRows[2].app = useApp
    /\ useRows[1].h0 = NaNv /\ useRows[2].h0 = Num(1)
    /\ useRows[1].h23 = Num(-1) /\ useRows[2].h23 = Num(-1)
    /\ useHourly[1].value = 1
    /\ useHourly[24].value = -2

PageUsageFirst ==
    LET p1 == IF appLoad = "loaded"
              THEN AsyncRenderSeries1(pageBefore,
                                      preprocessFromRawRows(initApp.v))
              ELSE pageBefore
    IN IF finLoad = "loaded"
       THEN AsyncRenderSeries2(p1, preprocessFinanceRows(initFin.v))
       ELSE p1

Series1Containers == {Sel(SERIES1_PREFIX, "0"), Sel(SERIES1_PREFIX, "1")}

\* C21: the two loads have no ordering dependency. Once both have completed,
\* in either order and each succeeding or failing, the page is the one
\* obtained with the usage continuation first; and as long as a load has not
\* succeeded, the containers and the tooltip of its chart are as they were
\* at the start, whatever the other continuation did.
C21_LoadOrderDoesNotMatter ==
    initPc = "loading" =>
        /\ (appLoad # "pending" /\ finLoad # "pending") => page = PageUsageFirst
        /\ finLoad # "loaded" =>
              /\ page.dom[SERIES2] = pageBefore.dom[SERIES2]
              /\ page.tips2 = pageBefore.tips2
        /\ appLoad # "loaded" =>
              /\ \A c \in Series1Containers : page.dom[c] = pageBefore.dom[c]
              /\ page.tips1 = pageBefore.tips1

\* both loads succeeded and both charts are on the page
C21_Witness ==
    /\ initPc = "loading"
    /\ appLoad = "loaded" /\ finLoad = "loaded"
    /\ Series1Rendered /\ Series2Rendered

\* C24: when applyStaggerToCards finds no card it retries once later: it
\* schedules at most one timer, so the polling stops even if the cards never
\* appear.
C24_RetriesOnce == retries <= 1

\* C25: each scroll-animated element starts paused, is set to running by the
\* first entry that intersects and is then unobserved; once running it is
\* never paused again and the observer callback changes it at most once;
\* without IntersectionObserver every element is running at once.
C25_RunsOnceVisibleAndStaysRunning ==
    animPc = "ready" =>
        \A e \in animated :
            /\ playState[e] \in {"paused", "running"}
            /\ e \in everRunning => playState[e] = "running"
            /\ changes[e] <= 1
            /\ ~ioSupported => playState[e] = "running"
            /\ ioSupported => (playState[e] = "paused" <=> e \in observed)

\* an element is running and unobserved after its entries, one of them not
\* intersecting, were delivered, while another element is still paused
C25_Witness ==
    /\ animPc = "ready" /\ ioSupported
    /\ \E e \in animated :
          /\ playState[e] = "running"
          /\ changes[e] = 1
          /\ e \notin observed
          /\ \A b \in BOOLEAN : <<e, b>> \notin queued
    /\ \E e \in animated : playState[e] = "paused" /\ e \in observed

\* C26: Main.init of part_001 runs exactly once per page load: on
\* DOMContentLoaded if the document is still loading when the script is
\* evaluated, otherwise immediately; never twice and never skipped.
C26_InitRunsExactlyOnce ==
    initPc \in {"async", "waiting", "loading"} =>
        /\ initRuns <= 1
        /\ initPc = "waiting" => (readyState = "loading" /\ initRuns = 0)
        /\ initPc = "async" => initRuns = 0
        /\ (initPc # "async" /\ readyState # "loading") => initRuns = 1
        /\ initPc = "loading" => initRuns = 1

\* init was registered while the document was loading and has run on
\* DOMContentLoaded
C26_Witness ==
    /\ initPc = "loading"
    /\ listener /\ readyState = "interactive"
    /\ initRuns = 1

SvgCount(children) ==
    Cardinality({i \in DOMAIN children : children[i].tag = "svg"})

\* the containers the charts of the loaded data are rendered into
ChartTargets ==
    IF initPc = "loading"
    THEN (IF appLoad = "loaded"
          THEN {Sel(SERIES1_PREFIX, IdxStr(k - 1)) :
                   k \in DOMAIN FirstTwo(KeysFrom(
                       preprocessFromRawRows(initApp.v).longRecords, {}))}
          ELSE {})
         \cup (IF finLoad = "loaded" /\ FinHasPrices THEN {SERIES2} ELSE {})
    ELSE IF initPc = "done" /\ appLoad = "loaded" /\ finLoad = "loaded"
    THEN {Sel(SERIES1_PREFIX, appsToShow[i]) : i \in DOMAIN appsToShow}
         \cup {SERIES2}
    ELSE {}

\* C27: rendering into the same container repeatedly does not accumulate
\* charts: after any number of calls of renderSeries1 and renderSeries2 (of
\* part_001, which call renderAppUsageRadialChart and renderInternal, and of
\* main.js) with data that yields a chart, each target container holds
\* exactly one svg, and no container holds more than one.
C27_OneSvgPerContainer ==
    /\ \A c \in ChartTargets :
          c \in DOMAIN page.dom /\ SvgCount(page.dom[c]) = 1
    /\ initPc \in {"loading", "done"} =>
          \A c \in DOMAIN page.dom : SvgCount(page.dom[c]) <= 1

\* both charts have been rendered by init and rendered again twice
C27_Witness ==
    /\ reRenders = MaxRenders
    /\ SERIES2 \in ChartTargets
    /\ Cardinality(ChartTargets) >= 2

\* C28: after any sequence of chart renders and hover events the body holds
\* at most one .series1-tooltip and at most one .series2-tooltip element;
\* a chart with hover handlers on the page has its tooltip element, and a
\* displayed tooltip is an existing one.
C28_AtMostOneTooltipPerClass ==
    /\ page.tips1 <= 1
    /\ page.tips2 <= 1
    /\ HasHoverChart(page, "series1-tooltip") => page.tips1 = 1
    /\ HasHoverChart(page, "series2-tooltip") => page.tips2 = 1
    /\ "series1-tooltip" \in tipVisible => page.tips1 = 1
    /\ "series2-tooltip" \in tipVisible => page.tips2 = 1

\* both charts were rendered, rendered again, and a tooltip is displayed
C28_Witness ==
    /\ reRenders = MaxRenders
    /\ page.tips1 = 1 /\ page.tips2 = 1
    /\ tipVisible # {}

\* the minutes of period p summed over all days of the grid
PeriodMinutes(grid, p) ==
    SumMinutes(SelectSeq(grid.flatData, LAMBDA c : c.shichenIndex = p))

RECURSIVE SumValues(_)
SumValues(hours) ==
    IF hours = <<>> THEN 0 ELSE Head(hours).value + SumValues(Tail(hours))

\* the values of the 24-hour series summed over the hours of period p
PeriodValues(hourly, p) ==
    SumValues(SelectSeq(hourly, LAMBDA e : getShichenIndex(e.hour) = p))

\* the rows of the app all carry a date and non-negative finite hourly values
NonNegativeDatedRows(rows, app) ==
    \A i \in DOMAIN rows :
        rows[i].app = app =>
            /\ rows[i].date # 0
            /\ \A h \in 0..23 :
                   /\ NumberIsFinite(HourCell(rows[i], h))
                   /\ HourCell(rows[i], h).v >= 0

\* C29: for one app whose hourly values are non-negative and finite and
\* whose rows all carry a non-empty date, the 12-period grid and the 24-hour
\* series agree: every period has two hours, and the minutes of period p
\* summed over all days of the grid equal the sum of the series values of
\* the hours h with getShichenIndex(h) = p.
C29_AggregatorsAgree ==
    /\ \A p \in 0..11 :
           Cardinality({h \in 0..23 : getShichenIndex(h) = p}) = 2
    /\ (usePc \in {"grid", "aggregated"}
           /\ NonNegativeDatedRows(useRows, useApp))
          => \A p \in 0..11 :
                PeriodMinutes(useGrid, p) =
                    PeriodValues(
                        buildHourlySeriesForApp(groupByApp(useRows)[useApp]),
                        p)
    /\ (usePc = "hourly" /\ NonNegativeDatedRows(useRows, useApp))
          => \A p \in 0..11 :
                PeriodValues(useHourly, p) =
                    PeriodMinutes(
                        buildShichenDateData(
                            preprocessFromRawRows(useRows).byApp[useApp],
                            useApp),
                        p)

\* the grid of an app with two dated rows of non-negative values, whose
\* first period sums hours 23 and 0 of both days
C29_Witness ==
    /\ usePc = "grid"
    /\ NonNegativeDatedRows(useRows, useApp)
    /\ useGrid.numDates = 2
    /\ PeriodMinutes(useGrid, 0) = 6
    /\ PeriodMinutes(useGrid, 1) > 0

\* the last call was renderForMultipleApps with a preprocess result, an
\* array of app names and a container prefix
MultipleAppsCall ==
    /\ rCall.op = "renderForMultipleApps"
    /\ rCall.args[1].t = "obj"
    /\ IsArray(rCall.args[2])
    /\ HasContainerPrefix(rCall.args[3])

\* the positions of the app names that have records
AppsWithRecords(byApp, appNames) ==
    {i \in DOMAIN appNames : Len(ByAppGet(byApp, appNames[i])) > 0}

\* C30: renderForMultipleApps renders the chart of appNames[i] into the
\* container containerPrefix + i; an app with no records is skipped with its
\* container left unchanged, a skipped app does not shift the later apps
\* into earlier containers, and no other container changes.
C30_AppsKeepTheirIndices ==
    MultipleAppsCall =>
        LET byApp == rCall.args[1].byApp
            appNames == rCall.args[2].v
            prefix == rCall.args[3].containerPrefix
            drawn == AppsWithRecords(byApp, appNames)
        IN /\ \A i \in DOMAIN appNames :
                  LET c == Sel(prefix, IdxStr(i - 1))
                  IN IF i \in drawn
                     THEN page.dom[c] = <<Svg("series1-svg", appNames[i])>>
                     ELSE page.dom[c] = pageBefore.dom[c]
           /\ \A c \in Containers :
                  c \notin {Sel(prefix, IdxStr(i - 1)) : i \in drawn}
                      => page.dom[c] = pageBefore.dom[c]

\* a call whose first app has no records and whose second has: the second
\* container holds the chart, the first keeps its placeholder
C30_Witness ==
    /\ MultipleAppsCall
    /\ AppsWithRecords(rCall.args[1].byApp, rCall.args[2].v) = {2}
    /\ pageBefore.dom[Sel(SERIES1_PREFIX, "0")] = <<Placeholder>>
    /\ page.dom[Sel(SERIES1_PREFIX, "0")] = <<Placeholder>>
    /\ page.dom[Sel(SERIES1_PREFIX, "1")] # pageBefore.dom[Sel(SERIES1_PREFIX, "1")]

AnimIdle ==
    /\ animPc = "off"
    /\ ioSupported = FALSE
    /\ animated = {}
    /\ hasSection = FALSE
    /\ playState = [e \in AnimElems |-> ""]
    /\ observed = {}
    /\ queued = {}
    /\ cardsPresent = FALSE
    /\ timers = 0
    /\ retries = 0
    /\ staggered = FALSE
    /\ everRunning = {}
    /\ changes = [e \in AnimElems |-> 0]

InitIdle ==
    /\ initPc = "off"
    /\ appLoad = "none"
    /\ finLoad = "none"
    /\ initApp = Undef
    /\ initFin = Undef
    /\ initLog = {}
    /\ readyState = "loading"
    /\ listener = FALSE
    /\ initRuns = 0
    /\ reRenders = 0

FinInit == FinStart /\ UseIdle /\ ShIdle /\ RenderIdle /\ InitIdle /\ AnimIdle
FinYearInit == FinYearStart /\ UseIdle /\ ShIdle /\ RenderIdle /\ InitIdle /\ AnimIdle
UseInit == UseStart /\ FinIdle /\ ShIdle /\ RenderIdle /\ InitIdle /\ AnimIdle
ShInit == ShStart /\ FinIdle /\ UseIdle /\ RenderIdle /\ InitIdle /\ AnimIdle
RenderInit == RenderStart /\ FinIdle /\ UseIdle /\ ShIdle /\ InitIdle /\ AnimIdle
PageInit == InitStart /\ FinIdle /\ UseIdle /\ ShIdle /\ AnimIdle
AnimInit ==
    AnimStart /\ FinIdle /\ UseIdle /\ ShIdle /\ RenderIdle /\ InitIdle

SpecFinance == FinInit /\ [][FinNext]_vars
SpecFinanceYears == FinYearInit /\ [][FinNext]_vars
SpecUsage == UseInit /\ [][UseNext]_vars
SpecPipelines == (FinInit \/ UseInit) /\ [][FinNext \/ UseNext]_vars
SpecShichen == ShInit /\ [][ShNext]_vars
SpecRender == RenderInit /\ [][RenderNext]_vars
\* the rendering interface of AppUsageSeries1 in src/src/series/series1.js
SpecRadial == RenderInit /\ [][RadialNext]_vars
SpecInit == PageInit /\ [][InitNext]_vars
SpecAnimation == AnimInit /\ [][AnimNext]_vars

====
